---- MODULE Spec2Model ----
(***************************************************************************)
(* Verification model of the Alx_DjangoLearnLab repository: the social     *)
(* media API (accounts, follow graph, feed), the bookshelf permission      *)
(* groups and views, and the books/authors REST API with its filters.      *)
(* Each Django project owns its database, so each gets a specification of  *)
(* its own over the shared variable list.                                  *)
(***************************************************************************)
EXTENDS Integers, Sequences, FiniteSets, TLC

VARIABLES
    users,        \* social_media_api: CustomUser rows (by username)
    tokens,       \* social_media_api: authtoken Token rows [user, key]
    nextKey,      \* social_media_api: source of fresh token keys
    regToken,     \* history: the key each registration response carried
    followRows,   \* social_media_api: Follow rows [follower, following]
    posts,        \* social_media_api: Post rows [id, author, created_at]
    now,          \* social_media_api: the clock auto_now_add reads
    followedVia,  \* history: whom each user asked to follow and has not asked to unfollow
    sresp,        \* social_media_api: the last HTTP response
    permRows,     \* bookshelf: auth Permission rows of the Book content type (codenames)
    groups,       \* bookshelf: auth Group rows (names)
    groupPerms,   \* bookshelf: each group's permissions
    setupRan,     \* history: group setup has run at least once
    userGroups,   \* bookshelf: the groups of each existing user
    shelfBooks,   \* bookshelf: Book rows [id, title, author, publication_year]
    nextBookId,   \* bookshelf: the next primary key of Book
    currentYear,  \* the calendar year the validators read
    shelfResp,    \* bookshelf: the last HTTP response
    apiAuthors,   \* advanced-api-project: Author rows [id, name]
    apiBooks,     \* advanced-api-project: Book rows [id, title, publication_year, author]
    nextAuthorPk, \* advanced-api-project: the next primary key of Author
    nextBookPk,   \* advanced-api-project: the next primary key of Book
    today,        \* advanced-api-project: the year of date.today()
    apiResp,      \* advanced-api-project: the last HTTP response
    libUsers,     \* relationship_app: User rows (by username)
    profileRows,  \* relationship_app: UserProfile rows [user, role]
    blogPosts,    \* django_blog: Post rows [id, author, title, content, tags (Tag ids)]
    blogComments, \* django_blog: Comment rows [id, post, author, content]
    nextPostId,   \* django_blog: the next primary key of Post
    nextCommentId,\* django_blog: the next primary key of Comment
    blogResp,     \* django_blog: the last HTTP response
    blogTags,     \* django_blog: Tag rows [id, name]
    nextTagId,    \* django_blog: the next primary key of Tag
    inflight,     \* social_media_api: the follow requests being served, each with its
                  \* position in FollowUserView.post [pc, user, target, status]
    mwSettings,   \* bookshelf middleware: the Django settings it reads
    mwResponse,   \* bookshelf middleware: the last response it returned
    roleLast,     \* relationship_app: the last operation, who made it, its HTTP status
    likeRows,     \* social_media_api: Like rows [id, user, post]
    nextLikeId,   \* social_media_api: the next primary key of Like
    notifications,\* social_media_api: Notification rows [id, recipient, actor, verb, target]
    likeResp      \* social_media_api: the last response of the like/unlike endpoints

socialVars == <<users, tokens, nextKey, regToken, followRows, posts, now, followedVia, sresp>>

shelfVars == <<permRows, groups, groupPerms, setupRan, userGroups, shelfBooks, nextBookId,
               currentYear, shelfResp>>

apiVars == <<apiAuthors, apiBooks, nextAuthorPk, nextBookPk, today, apiResp>>

roleVars == <<libUsers, profileRows, roleLast>>

blogVars == <<blogPosts, blogComments, nextPostId, nextCommentId, blogResp>>

mwVars == <<mwSettings, mwResponse>>

likeVars == <<likeRows, nextLikeId, notifications, likeResp>>

tagVars == <<blogTags, nextTagId>>

raceVars == <<inflight>>

vars == <<socialVars, shelfVars, apiVars, roleVars, blogVars, mwVars, likeVars, tagVars, raceVars>>

\* what the requests of one project leave alone: the other projects' databases
notSocial == <<shelfVars, apiVars, roleVars, blogVars, mwVars, likeVars, tagVars, raceVars>>
notShelf == <<socialVars, apiVars, roleVars, blogVars, mwVars, likeVars, tagVars, raceVars>>
notApi == <<socialVars, shelfVars, roleVars, blogVars, mwVars, likeVars, tagVars, raceVars>>
notRoles == <<socialVars, shelfVars, apiVars, blogVars, mwVars, likeVars, tagVars, raceVars>>
notBlog == <<socialVars, shelfVars, apiVars, roleVars, mwVars, likeVars, tagVars, raceVars>>
notMw == <<socialVars, shelfVars, apiVars, roleVars, blogVars, likeVars, tagVars, raceVars>>
notLikes == <<socialVars, shelfVars, apiVars, roleVars, blogVars, mwVars, tagVars, raceVars>>
\* what a follow request served step by step leaves alone
notFollowing == <<users, tokens, nextKey, regToken, posts, now, followedVia, sresp,
                  shelfVars, apiVars, roleVars, blogVars, mwVars, likeVars, tagVars>>
\* what a request that saves a PostForm leaves alone
notBlogTags == <<socialVars, shelfVars, apiVars, roleVars, mwVars, likeVars, raceVars>>

(***************************************************************************)
(* Bounds                                                                  *)
(***************************************************************************)
MaxPosts == 3
MaxShelfBooks == 2
MaxApiAuthors == 2
MaxApiBooks == 2
MaxBlogPosts == 2
MaxBlogComments == 2
MaxLikes == 4
MaxNotifications == 3

\* StandardResultsSetPagination
page_size == 10
max_page_size == 100

\* usernames a client may send; "dave" never registers in the feed specification
UserNames == {"alice", "bob", "carol", "dave"}
FeedUsers == {"alice", "bob", "carol"}

NoResp == [op |-> "none"]

\* the calendar years the books/authors API runs through
FirstYear == 2026
LastYear == 2027

\* bookshelf: the groups and the custom Book permissions
GroupNames == {"Viewers", "Editors", "Admins"}
PermNames == {"can_view", "can_create", "can_edit", "can_delete"}

(***************************************************************************)
(* Initial states                                                          *)
(***************************************************************************)

SocialInit ==
    /\ users = {}
    /\ tokens = {}
    /\ nextKey = 1
    /\ regToken = [u \in UserNames |-> 0]
    /\ followRows = {}
    /\ posts = {}
    /\ now = 0
    /\ followedVia = [u \in UserNames |-> {}]
    /\ sresp = NoResp

\* the accounts of FeedUsers registered, each with its token
FeedInit ==
    /\ users = FeedUsers
    /\ tokens = {[user |-> "alice", key |-> 1], [user |-> "bob", key |-> 2],
                 [user |-> "carol", key |-> 3]}
    /\ nextKey = 4
    /\ regToken = [u \in UserNames |->
                     IF u = "alice" THEN 1 ELSE IF u = "bob" THEN 2
                     ELSE IF u = "carol" THEN 3 ELSE 0]
    /\ followRows = {}
    /\ posts = {}
    /\ now = 0
    /\ followedVia = [u \in UserNames |-> {}]
    /\ sresp = NoResp

\* the accounts of FeedUsers registered and two posts published, one of alice
\* and one of bob
PostedInit ==
    /\ users = FeedUsers
    /\ tokens = {[user |-> "alice", key |-> 1], [user |-> "bob", key |-> 2],
                 [user |-> "carol", key |-> 3]}
    /\ nextKey = 4
    /\ regToken = [u \in UserNames |->
                     IF u = "alice" THEN 1 ELSE IF u = "bob" THEN 2
                     ELSE IF u = "carol" THEN 3 ELSE 0]
    /\ followRows = {}
    /\ posts = {[id |-> 1, author |-> "alice", created_at |-> 1],
                [id |-> 2, author |-> "bob", created_at |-> 2]}
    /\ now = 2
    /\ followedVia = [u \in UserNames |-> {}]
    /\ sresp = NoResp

\* the bookshelf database after migration: no custom permission rows, no group,
\* one user without any group, no book
ShelfInit ==
    /\ permRows = {}
    /\ groups = {}
    /\ groupPerms = [g \in GroupNames |-> {}]
    /\ setupRan = FALSE
    /\ userGroups = [u \in {"regular_test"} |-> {}]
    /\ shelfBooks = {}
    /\ nextBookId = 1
    /\ currentYear = 2026
    /\ shelfResp = [view |-> "none", user |-> "none", method |-> "none", status |-> 0,
                    held |-> {}]

\* the books/authors database after migration, in the year FirstYear
ApiInit ==
    /\ apiAuthors = {}
    /\ apiBooks = {}
    /\ nextAuthorPk = 1
    /\ nextBookPk = 1
    /\ today = FirstYear
    /\ apiResp = NoResp

\* the API database with six authors entered and no book yet
StatsInit ==
    /\ apiAuthors = {[id |-> 1, name |-> <<"a">>], [id |-> 2, name |-> <<"b">>],
                     [id |-> 3, name |-> <<"c">>], [id |-> 4, name |-> <<"a", "a">>],
                     [id |-> 5, name |-> <<"b", "b">>], [id |-> 6, name |-> <<"c", "c">>]}
    /\ apiBooks = {}
    /\ nextAuthorPk = 7
    /\ nextBookPk = 1
    /\ today = FirstYear
    /\ apiResp = NoResp

\* relationship_app (advanced_features_and_security): UserProfile and the
\* post_save receivers are part of the schema from the start, no user yet
RolesInit ==
    /\ libUsers = {}
    /\ profileRows = {}
    /\ roleLast = [op |-> "none", user |-> "none", status |-> 0]

\* relationship_app (django-models): UserProfile arrives with migration 0002, so
\* an account made before it ("dave") has no profile row
LegacyRolesInit ==
    /\ libUsers = {"dave"}
    /\ profileRows = {}
    /\ roleLast = [op |-> "none", user |-> "none", status |-> 0]

\* django_blog after migration: no post, no comment
BlogInit ==
    /\ blogPosts = {}
    /\ blogComments = {}
    /\ nextPostId = 1
    /\ nextCommentId = 1
    /\ blogResp = [op |-> "none", user |-> "none", method |-> "none", pk |-> 0, status |-> 0,
                   content |-> <<>>, errors |-> {}, search_in |-> {}, rows |-> {}]

\* django_blog with two posts of alice published
BlogCommentsInit ==
    /\ blogPosts = {[id |-> i, author |-> "alice", title |-> <<"p", "o", "s", "t", "s">>,
                     content |-> [k \in 1..20 |-> "x"], tags |-> {}] : i \in {1, 2}}
    /\ blogComments = {}
    /\ nextPostId = 3
    /\ nextCommentId = 1
    /\ blogResp = [op |-> "none", user |-> "none", method |-> "none", pk |-> 0, status |-> 0,
                   content |-> <<>>, errors |-> {}, search_in |-> {}, rows |-> {}]

\* the middleware of a development configuration before its first request
MwIdle ==
    /\ mwSettings = [SECURE_SSL_REDIRECT |-> FALSE, SECURE_HSTS_INCLUDE_SUBDOMAINS |-> FALSE,
                     SECURE_HSTS_PRELOAD |-> FALSE]
    /\ mwResponse = [status |-> 0, url |-> "", headers |-> <<>>]

\* the settings are fixed when the process starts; no response yet
MwInit ==
    /\ mwSettings \in [SECURE_SSL_REDIRECT : BOOLEAN, SECURE_HSTS_INCLUDE_SUBDOMAINS : BOOLEAN,
                       SECURE_HSTS_PRELOAD : BOOLEAN]
    /\ mwResponse = [status |-> 0, url |-> "", headers |-> <<>>]

\* the initial states of each project's specification
\* the workers that serve follow requests side by side
Workers == {1, 2}

\* no follow request being served
RaceInit ==
    inflight = [w \in Workers |-> [pc |-> "idle", user |-> "", target |-> "", status |-> 0]]

\* no tag yet
TagsInit ==
    /\ blogTags = {}
    /\ nextTagId = 1

\* no like and no notification yet
LikesInit ==
    /\ likeRows = {}
    /\ nextLikeId = 1
    /\ notifications = {}
    /\ likeResp = NoResp

InitAuth == SocialInit /\ ShelfInit /\ ApiInit /\ RolesInit /\ BlogInit /\ MwIdle /\ LikesInit /\ TagsInit /\ RaceInit
InitFeed == FeedInit /\ ShelfInit /\ ApiInit /\ RolesInit /\ BlogInit /\ MwIdle /\ LikesInit /\ TagsInit /\ RaceInit
InitShelf == SocialInit /\ ShelfInit /\ ApiInit /\ RolesInit /\ BlogInit /\ MwIdle /\ LikesInit /\ TagsInit /\ RaceInit
InitApi == SocialInit /\ ShelfInit /\ ApiInit /\ RolesInit /\ BlogInit /\ MwIdle /\ LikesInit /\ TagsInit /\ RaceInit
InitProfiles == SocialInit /\ ShelfInit /\ ApiInit /\ RolesInit /\ BlogInit /\ MwIdle /\ LikesInit /\ TagsInit /\ RaceInit
InitBlog == SocialInit /\ ShelfInit /\ ApiInit /\ RolesInit /\ BlogInit /\ MwIdle /\ LikesInit /\ TagsInit /\ RaceInit
InitBlogComments == SocialInit /\ ShelfInit /\ ApiInit /\ RolesInit /\ BlogCommentsInit /\ MwIdle /\ LikesInit /\ TagsInit /\ RaceInit
InitMw == SocialInit /\ ShelfInit /\ ApiInit /\ RolesInit /\ BlogInit /\ MwInit /\ LikesInit /\ TagsInit /\ RaceInit
InitStats == SocialInit /\ ShelfInit /\ StatsInit /\ RolesInit /\ BlogInit /\ MwIdle /\ LikesInit /\ TagsInit /\ RaceInit
InitRace == FeedInit /\ ShelfInit /\ ApiInit /\ RolesInit /\ BlogInit /\ MwIdle /\ LikesInit /\ TagsInit /\ RaceInit
InitLikes == PostedInit /\ ShelfInit /\ ApiInit /\ RolesInit /\ BlogInit /\ MwIdle /\ LikesInit /\ TagsInit /\ RaceInit
InitDashboards == SocialInit /\ ShelfInit /\ ApiInit /\ LegacyRolesInit /\ BlogInit /\ MwIdle /\ LikesInit /\ TagsInit /\ RaceInit

(***************************************************************************)
(* social_media_api/accounts: registration, login and tokens               *)
(***************************************************************************)

\* Token.objects.create(user=u): one more row (user is a OneToOneField, so a
\* second row for the same user is refused by the database)
TokenCreate(rows, u, k) ==
    IF \E r \in rows : r.user = u THEN rows ELSE rows \cup {[user |-> u, key |-> k]}

\* Token.objects.get_or_create(user=u): the rows afterwards
TokenGetOrCreate(rows, u, k) ==
    IF \E r \in rows : r.user = u THEN rows ELSE rows \cup {[user |-> u, key |-> k]}

\* the next unused key once the rows hold every key handed out so far
FreshAfter(rows, k) ==
    IF \E r \in rows : r.key >= k
    THEN 1 + (CHOOSE m \in {r.key : r \in rows} : \A r \in rows : r.key <= m)
    ELSE k

\* the key of the row get_or_create returns
TokenKeyOf(rows, u) == (CHOOSE r \in rows : r.user = u).key

\* UserRegistrationSerializer.create: create_user, then Token.objects.create
SerializerCreateTokens(rows, u, k) == TokenCreate(rows, u, k)

\* a login that rotated the token instead of reusing it
LoginTokensRotating(rows, u, k) ==
    {r \in rows : r.user # u} \cup {[user |-> u, key |-> k]}

\* login_view: Token.objects.get_or_create(user=user)
LoginTokens(rows, u, k) == TokenGetOrCreate(rows, u, k)

\* RegisterView.create.  valid: the password is at least 8 characters long
\* and equals password_confirm; the username must be unused.
Register(u, valid) ==
    /\ IF valid /\ u \notin users
       THEN LET t1 == SerializerCreateTokens(tokens, u, nextKey)
                t2 == TokenGetOrCreate(t1, u, nextKey + 1)
            IN /\ users' = users \cup {u}
               /\ tokens' = t2
               /\ nextKey' = FreshAfter(t2, nextKey)
               /\ regToken' = [regToken EXCEPT ![u] = TokenKeyOf(t2, u)]
               /\ sresp' = [op |-> "register", user |-> u, status |-> 201,
                            token |-> TokenKeyOf(t2, u)]
       ELSE /\ UNCHANGED <<users, tokens, nextKey, regToken>>
            /\ sresp' = [op |-> "register", user |-> u, status |-> 400, token |-> 0]
    /\ UNCHANGED <<followRows, posts, now, followedVia>>
    /\ UNCHANGED notSocial

\* login_view.  correct: authenticate() accepts the password for an active user
Login(u, correct) ==
    /\ IF correct /\ u \in users
       THEN LET t == LoginTokens(tokens, u, nextKey)
            IN /\ tokens' = t
               /\ nextKey' = FreshAfter(t, nextKey)
               /\ sresp' = [op |-> "login", user |-> u, status |-> 200,
                            token |-> TokenKeyOf(t, u)]
       ELSE /\ UNCHANGED <<tokens, nextKey>>
            /\ sresp' = [op |-> "login", user |-> u, status |-> 400, token |-> 0]
    /\ UNCHANGED <<users, regToken, followRows, posts, now, followedVia>>
    /\ UNCHANGED notSocial

(***************************************************************************)
(* social_media_api: the follow graph, posts and the feed                  *)
(***************************************************************************)

\* CustomUser.followers, the forward accessor of the ManyToManyField through
\* Follow: the rows whose first foreign key (follower) is u, read at the second
Followers(rows, u) == {r.following : r \in {x \in rows : x.follower = u}}

\* CustomUser.following, the reverse accessor (related_name): the rows whose
\* second foreign key (following) is u, read at the first
Following(rows, u) == {r.follower : r \in {x \in rows : x.following = u}}

\* an add through the forward accessor instead: request.user.followers.add(t)
FollowersAdd(rows, u, t) == rows \cup {[follower |-> u, following |-> t]}

\* request.user.following.add(t)
FollowingAdd(rows, u, t) == rows \cup {[follower |-> t, following |-> u]}

\* request.user.following.remove(t)
FollowingRemove(rows, u, t) == rows \ {[follower |-> t, following |-> u]}

\* a feed that read the forward accessor instead
FeedAuthorsForward(rows, u) == Followers(rows, u)

\* feed: following_users = user.following.all()
FeedAuthors(rows, u) == Following(rows, u)

\* order_by('-created_at'): every order of ps with created_at never increasing
\* (the database is free in the order of equal timestamps)
RECURSIVE NewestFirst(_)
NewestFirst(ps) ==
    IF ps = {} THEN {<<>>}
    ELSE UNION {{<<p>> \o s : s \in NewestFirst(ps \ {p})} :
                  p \in {q \in ps : \A r \in ps : q.created_at >= r.created_at}}

\* StandardResultsSetPagination.get_page_size: the page_size query parameter
\* when it is a positive integer (cut off at max_page_size), else page_size
PageSizeOf(param) ==
    IF param >= 1 THEN (IF param > max_page_size THEN max_page_size ELSE param)
    ELSE page_size

\* Paginator.num_pages, with allow_empty_first_page
NumPages(n, size) == IF n = 0 THEN 1 ELSE (n + size - 1) \div size

\* Paginator.page(number).object_list
PageOf(s, number, size) ==
    LET lo == (number - 1) * size + 1
        hi == IF number * size > Len(s) THEN Len(s) ELSE number * size
    IN SubSeq(s, lo, hi)

\* FollowUserView.post, by authenticated user u for user_id t
FollowUser(u, t) ==
    /\ u \in users
    /\ IF t \notin users
       THEN /\ sresp' = [op |-> "follow", user |-> u, target |-> t, status |-> 404]
            /\ UNCHANGED <<followRows, followedVia>>
       ELSE IF t = u
       THEN /\ sresp' = [op |-> "follow", user |-> u, target |-> t, status |-> 400]
            /\ UNCHANGED <<followRows, followedVia>>
       ELSE /\ followedVia' = [followedVia EXCEPT ![u] = @ \cup {t}]
            /\ IF t \in Following(followRows, u)
               THEN /\ sresp' = [op |-> "follow", user |-> u, target |-> t, status |-> 400]
                    /\ UNCHANGED followRows
               ELSE /\ followRows' = FollowingAdd(followRows, u, t)
                    /\ sresp' = [op |-> "follow", user |-> u, target |-> t, status |-> 200]
    /\ UNCHANGED <<users, tokens, nextKey, regToken, posts, now>>
    /\ UNCHANGED notSocial

\* UnfollowUserView.post, by authenticated user u for user_id t
UnfollowUser(u, t) ==
    /\ u \in users
    /\ IF t \notin users
       THEN /\ sresp' = [op |-> "unfollow", user |-> u, target |-> t, status |-> 404]
            /\ UNCHANGED <<followRows, followedVia>>
       ELSE IF t = u
       THEN /\ sresp' = [op |-> "unfollow", user |-> u, target |-> t, status |-> 400]
            /\ UNCHANGED <<followRows, followedVia>>
       ELSE /\ followedVia' = [followedVia EXCEPT ![u] = @ \ {t}]
            /\ IF t \notin Following(followRows, u)
               THEN /\ sresp' = [op |-> "unfollow", user |-> u, target |-> t, status |-> 400]
                    /\ UNCHANGED followRows
               ELSE /\ followRows' = FollowingRemove(followRows, u, t)
                    /\ sresp' = [op |-> "unfollow", user |-> u, target |-> t, status |-> 200]
    /\ UNCHANGED <<users, tokens, nextKey, regToken, posts, now>>
    /\ UNCHANGED notSocial

\* PostViewSet.create with perform_create: the author is the requesting user,
\* created_at (auto_now_add) the clock's reading at the insert
CreatePost(u) ==
    /\ u \in users
    /\ Cardinality(posts) < MaxPosts
    /\ now' = now + 1
    /\ posts' = posts \cup {[id |-> Cardinality(posts) + 1, author |-> u,
                             created_at |-> now + 1]}
    /\ sresp' = [op |-> "post", user |-> u, status |-> 201]
    /\ UNCHANGED <<users, tokens, nextKey, regToken, followRows, followedVia>>
    /\ UNCHANGED notSocial

\* feed, by authenticated user u with query parameters page and page_size
\* (sizeParam 0: no page_size parameter)
Feed(u, page, sizeParam) ==
    /\ u \in users
    /\ LET mine == {p \in posts : p.author \in FeedAuthors(followRows, u)}
           size == PageSizeOf(sizeParam)
       IN IF page > NumPages(Cardinality(mine), size)
          THEN sresp' = [op |-> "feed", user |-> u, status |-> 404]
          ELSE \E s \in NewestFirst(mine) :
                 sresp' = [op |-> "feed", user |-> u, status |-> 200,
                           count |-> Cardinality(mine), page |-> page,
                           size |-> size, results |-> PageOf(s, page, size)]
    /\ UNCHANGED <<users, tokens, nextKey, regToken, followRows, posts, now, followedVia>>
    /\ UNCHANGED notSocial

FeedNext ==
    \/ \E u \in FeedUsers, t \in UserNames : FollowUser(u, t)
    \/ \E u \in FeedUsers, t \in UserNames : UnfollowUser(u, t)
    \/ \E u \in FeedUsers : CreatePost(u)
    \/ \E u \in FeedUsers, page \in 1..2, sizeParam \in 0..1 : Feed(u, page, sizeParam)

SpecFeed == InitFeed /\ [][FeedNext]_vars

\* the posts a feed response lists
Listed(r) == {r.results[i] : i \in 1..Len(r.results)}

\* C1: a feed response for user U lists only posts whose author U asked to
\* follow and has not since asked to unfollow, counts all of them, lists all of
\* them when they fit the page, each once, newest created_at first
C1_FeedShowsFollowedNewestFirst ==
    (sresp.op = "feed" /\ sresp.status = 200) =>
        LET want == {p \in posts : p.author \in followedVia[sresp.user]}
            got == Listed(sresp)
            n == Len(sresp.results)
        IN /\ got \subseteq want
           /\ sresp.count = Cardinality(want)
           /\ Cardinality(got) = n
           /\ (sresp.page = 1 /\ sresp.count <= sresp.size) => got = want
           /\ \A i, j \in 1..n :
                i < j => sresp.results[i].created_at > sresp.results[j].created_at

\* a feed listing two posts while a third post, of another user whom the
\* requester does not follow, is left out
C1_Witness ==
    /\ sresp.op = "feed" /\ sresp.status = 200
    /\ Len(sresp.results) = 2
    /\ \E p \in posts : p \notin Listed(sresp) /\ p.author # sresp.user

AuthNext ==
    \/ \E u \in UserNames, valid \in BOOLEAN : Register(u, valid)
    \/ \E u \in UserNames, correct \in BOOLEAN : Login(u, correct)

SpecAuth == InitAuth /\ [][AuthNext]_vars

\* C2: every registered user has exactly one Token row, its key is the key
\* the registration response carried, and every successful login response
\* carries that same key
C2_OneTokenSameKey ==
    /\ \A u \in users :
         /\ Cardinality({r \in tokens : r.user = u}) = 1
         /\ \A r \in tokens : r.user = u => r.key = regToken[u]
    /\ (sresp.op = "login" /\ sresp.status = 200) => sresp.token = regToken[sresp.user]

\* a successful login of a user registered before another user was
C2_Witness ==
    /\ sresp.op = "login" /\ sresp.status = 200
    /\ \E v \in users : regToken[v] > regToken[sresp.user]

(***************************************************************************)
(* Text, as sequences of one-character strings                             *)
(***************************************************************************)

\* str.lower() on one character of the alphabet the inputs are drawn from
LowerChar(c) ==
    CASE c = "A" -> "a" [] c = "B" -> "b" [] c = "C" -> "c" [] c = "O" -> "o"
      [] c = "T" -> "t" [] c = "D" -> "d" [] c = "P" -> "p" [] c = "W" -> "w" [] OTHER -> c

\* str.lower()
Lower(s) == [i \in 1..Len(s) |-> LowerChar(s[i])]

\* sub in s
Contains(s, sub) ==
    \E i \in 0..(Len(s) - Len(sub)) : SubSeq(s, i + 1, i + Len(sub)) = sub

\* str.strip()
RECURSIVE Strip(_)
Strip(s) ==
    IF s = <<>> THEN s
    ELSE IF Head(s) = " " THEN Strip(Tail(s))
    ELSE IF s[Len(s)] = " " THEN Strip(SubSeq(s, 1, Len(s) - 1))
    ELSE s

(***************************************************************************)
(* advanced_features_and_security: bookshelf groups, permissions and views *)
(***************************************************************************)

Anonymous == "anonymous"
TestUsers == {"test_viewer", "test_editor", "test_admin"}
Methods == {"GET", "POST", "DELETE"}
SafeMethods == {"GET", "HEAD", "OPTIONS", "TRACE"}

\* setup_groups.Command.handle: group_permissions
CommandGroupPerms(g) ==
    CASE g = "Editors" -> {"can_create", "can_edit"}
      [] g = "Viewers" -> {"can_view"}
      [] g = "Admins" -> {"can_view", "can_create", "can_edit", "can_delete"}

\* setup_groups_permissions.setup_groups_and_permissions: the permissions.set calls
ScriptGroupPerms(g) ==
    CASE g = "Viewers" -> {"can_view"}
      [] g = "Editors" -> {"can_view", "can_create", "can_edit"}
      [] g = "Admins" -> {"can_view", "can_create", "can_edit", "can_delete"}

\* python manage.py setup_groups
SetupGroupsCommand ==
    /\ permRows' = permRows \cup PermNames
    /\ groups' = groups \cup GroupNames
    /\ groupPerms' = [g \in GroupNames |-> CommandGroupPerms(g)]
    /\ setupRan' = TRUE
    /\ UNCHANGED <<userGroups, shelfBooks, nextBookId, currentYear, shelfResp>>
    /\ UNCHANGED notShelf

\* python setup_groups_permissions.py
SetupGroupsScript ==
    /\ permRows' = permRows \cup PermNames
    /\ groups' = groups \cup GroupNames
    /\ groupPerms' = [g \in GroupNames |-> ScriptGroupPerms(g)]
    /\ setupRan' = TRUE
    /\ UNCHANGED <<userGroups, shelfBooks, nextBookId, currentYear, shelfResp>>
    /\ UNCHANGED notShelf

\* test_permissions_comprehensive.create_test_users: three users, one per group
\* (Group.objects.get needs the groups to exist)
CreateTestUsers ==
    /\ GroupNames \subseteq groups
    /\ userGroups' = [u \in DOMAIN userGroups \cup TestUsers |->
                        CASE u = "test_viewer" -> {"Viewers"}
                          [] u = "test_editor" -> {"Editors"}
                          [] u = "test_admin" -> {"Admins"}
                          [] OTHER -> userGroups[u]]
    /\ UNCHANGED <<permRows, groups, groupPerms, setupRan, shelfBooks, nextBookId,
                   currentYear, shelfResp>>
    /\ UNCHANGED notShelf

\* the permissions the auth backend finds for a user: those of the user's groups
UserPerms(u) ==
    IF u = Anonymous THEN {} ELSE UNION {groupPerms[g] : g \in userGroups[u]}

\* a book_delete guarded by the edit permission
RequiredPermDeleteAsEdit(view) ==
    CASE view = "book_list" -> "can_view"
      [] view = "book_detail" -> "can_view"
      [] view = "book_create" -> "can_create"
      [] view = "book_edit" -> "can_edit"
      [] view = "book_delete" -> "can_edit"

\* the codename in each view's @permission_required('bookshelf.<codename>')
RequiredPerm(view) ==
    CASE view = "book_list" -> "can_view"
      [] view = "book_detail" -> "can_view"
      [] view = "book_create" -> "can_create"
      [] view = "book_edit" -> "can_edit"
      [] view = "book_delete" -> "can_delete"

\* the views under @csrf_protect and @require_http_methods(["GET", "POST"])
FormViews == {"book_create", "book_edit", "book_delete"}

\* the decorators of a view, outermost first: permission_required with
\* raise_exception=True (PermissionDenied, 403, for whoever lacks the permission,
\* logged in or not), csrf_protect, require_http_methods.  0: the view body runs.
Decorators(view, u, m, csrf) ==
    IF RequiredPerm(view) \notin UserPerms(u) THEN 403
    ELSE IF view \in FormViews /\ m \notin SafeMethods /\ ~csrf THEN 403
    ELSE IF view \in FormViews /\ m \notin {"GET", "POST"} THEN 405
    ELSE 0

Script == <<"s", "c", "r", "i", "p", "t">>

\* a cleaning that checks the length only
CleanNameLengthOnly(text) ==
    LET t == Strip(text)
    IN IF t = <<>> THEN <<FALSE, t>>
       ELSE IF Len(t) < 2 THEN <<FALSE, t>>
       ELSE <<TRUE, t>>

\* BookForm.clean_title / clean_author on the value forms.CharField hands over
\* (stripped; an empty value fails the required check): <<ok, cleaned value>>
CleanName(text) ==
    LET t == Strip(text)
    IN IF t = <<>> THEN <<FALSE, t>>
       ELSE IF Len(t) < 2 THEN <<FALSE, t>>
       ELSE IF Contains(t, <<"<">>) \/ Contains(t, <<">">>) \/ Contains(Lower(t), Script)
       THEN <<FALSE, t>>
       ELSE <<TRUE, t>>

\* BookForm.__init__: MinValueValidator(1000), MaxValueValidator(current_year)
YearValid(y) == y >= 1000 /\ y <= currentYear

\* BookForm.is_valid()
BookFormValid(data) ==
    CleanName(data.title)[1] /\ CleanName(data.author)[1] /\ YearValid(data.publication_year)

\* BookForm.save(): the cleaned fields
BookFormCleaned(data) ==
    [title |-> CleanName(data.title)[2], author |-> CleanName(data.author)[2],
     publication_year |-> data.publication_year]

ShelfResponse(view, u, m, st) ==
    [view |-> view, user |-> u, method |-> m, status |-> st, held |-> UserPerms(u)]

Requesters == DOMAIN userGroups \cup {Anonymous}

\* book_list
BookList(u, m) ==
    /\ u \in Requesters
    /\ LET d == Decorators("book_list", u, m, TRUE)
       IN shelfResp' = ShelfResponse("book_list", u, m, IF d # 0 THEN d ELSE 200)
    /\ UNCHANGED <<permRows, groups, groupPerms, setupRan, userGroups, shelfBooks,
                   nextBookId, currentYear>>
    /\ UNCHANGED notShelf

\* book_detail
BookDetail(u, m, pk) ==
    /\ u \in Requesters
    /\ LET d == Decorators("book_detail", u, m, TRUE)
           st == IF d # 0 THEN d
                 ELSE IF \A b \in shelfBooks : b.id # pk THEN 404 ELSE 200
       IN shelfResp' = ShelfResponse("book_detail", u, m, st)
    /\ UNCHANGED <<permRows, groups, groupPerms, setupRan, userGroups, shelfBooks,
                   nextBookId, currentYear>>
    /\ UNCHANGED notShelf

\* book_create
BookCreate(u, m, csrf, data) ==
    /\ u \in Requesters
    /\ LET d == Decorators("book_create", u, m, csrf)
       IN IF d # 0
          THEN /\ shelfResp' = ShelfResponse("book_create", u, m, d)
               /\ UNCHANGED <<shelfBooks, nextBookId>>
          ELSE IF m = "POST" /\ BookFormValid(data)
          THEN /\ nextBookId <= MaxShelfBooks
               /\ shelfBooks' = shelfBooks \cup
                                  {[id |-> nextBookId] @@ BookFormCleaned(data)}
               /\ nextBookId' = nextBookId + 1
               /\ shelfResp' = ShelfResponse("book_create", u, m, 302)
          ELSE /\ shelfResp' = ShelfResponse("book_create", u, m, 200)
               /\ UNCHANGED <<shelfBooks, nextBookId>>
    /\ UNCHANGED <<permRows, groups, groupPerms, setupRan, userGroups, currentYear>>
    /\ UNCHANGED notShelf

\* book_edit
BookEdit(u, m, csrf, pk, data) ==
    /\ u \in Requesters
    /\ LET d == Decorators("book_edit", u, m, csrf)
       IN IF d # 0
          THEN /\ shelfResp' = ShelfResponse("book_edit", u, m, d)
               /\ UNCHANGED shelfBooks
          ELSE IF \A b \in shelfBooks : b.id # pk
          THEN /\ shelfResp' = ShelfResponse("book_edit", u, m, 404)
               /\ UNCHANGED shelfBooks
          ELSE IF m = "POST" /\ BookFormValid(data)
          THEN /\ shelfBooks' = {b \in shelfBooks : b.id # pk} \cup
                                  {[id |-> pk] @@ BookFormCleaned(data)}
               /\ shelfResp' = ShelfResponse("book_edit", u, m, 302)
          ELSE /\ shelfResp' = ShelfResponse("book_edit", u, m, 200)
               /\ UNCHANGED shelfBooks
    /\ UNCHANGED <<permRows, groups, groupPerms, setupRan, userGroups, nextBookId,
                   currentYear>>
    /\ UNCHANGED notShelf

\* book_delete
BookDelete(u, m, csrf, pk) ==
    /\ u \in Requesters
    /\ LET d == Decorators("book_delete", u, m, csrf)
       IN IF d # 0
          THEN /\ shelfResp' = ShelfResponse("book_delete", u, m, d)
               /\ UNCHANGED shelfBooks
          ELSE IF \A b \in shelfBooks : b.id # pk
          THEN /\ shelfResp' = ShelfResponse("book_delete", u, m, 404)
               /\ UNCHANGED shelfBooks
          ELSE IF m = "POST"
          THEN /\ shelfBooks' = {b \in shelfBooks : b.id # pk}
               /\ shelfResp' = ShelfResponse("book_delete", u, m, 302)
          ELSE /\ shelfResp' = ShelfResponse("book_delete", u, m, 200)
               /\ UNCHANGED shelfBooks
    /\ UNCHANGED <<permRows, groups, groupPerms, setupRan, userGroups, nextBookId,
                   currentYear>>
    /\ UNCHANGED notShelf

\* the form submissions tried
ShelfTitles == {<<"O", "k">>, <<"T", "w", "o">>, <<"<", "b">>}
ShelfAuthors == {<<"A", "l">>}
ShelfYears == {999, 2000, 2027}
ShelfForms == [title : ShelfTitles, author : ShelfAuthors, publication_year : ShelfYears]
AllUsers == TestUsers \cup {"regular_test", Anonymous}

ShelfNext ==
    \/ SetupGroupsCommand
    \/ SetupGroupsScript
    \/ CreateTestUsers
    \/ \E u \in AllUsers, m \in Methods : BookList(u, m)
    \/ \E u \in AllUsers, m \in Methods, pk \in 1..MaxShelfBooks : BookDetail(u, m, pk)
    \/ \E u \in AllUsers, m \in Methods, csrf \in BOOLEAN, data \in ShelfForms :
         BookCreate(u, m, csrf, data)
    \/ \E u \in AllUsers, m \in Methods, csrf \in BOOLEAN, pk \in 1..MaxShelfBooks,
          data \in ShelfForms : BookEdit(u, m, csrf, pk, data)
    \/ \E u \in AllUsers, m \in Methods, csrf \in BOOLEAN, pk \in 1..MaxShelfBooks :
         BookDelete(u, m, csrf, pk)

SpecShelf == InitShelf /\ [][ShelfNext]_vars


\* C3: once group setup has run, Viewers hold exactly can_view, Editors exactly
\* can_view, can_create and can_edit, Admins all four permissions
C3_GroupsAfterSetup ==
    setupRan =>
        /\ groupPerms["Viewers"] = {"can_view"}
        /\ groupPerms["Editors"] = {"can_view", "can_create", "can_edit"}
        /\ groupPerms["Admins"] = {"can_view", "can_create", "can_edit", "can_delete"}

C5_AnonymousListRedirected ==
    (shelfResp.view = "book_list" /\ shelfResp.user = Anonymous) => shelfResp.status = 302

(***************************************************************************)
(* advanced-api-project: the books/authors REST API                        *)
(***************************************************************************)

\* rest_framework.permissions.SAFE_METHODS
ApiSafeMethods == {"GET", "HEAD", "OPTIONS"}

\* has_permission of AllowAny, IsAuthenticated and IsAuthenticatedOrReadOnly
HasPermission(permission_class, method, auth) ==
    CASE permission_class = "AllowAny" -> TRUE
      [] permission_class = "IsAuthenticated" -> auth
      [] permission_class = "IsAuthenticatedOrReadOnly" -> method \in ApiSafeMethods \/ auth

\* the delete view left open to everyone
PermissionClassOpenDelete(view) ==
    CASE view \in {"AuthorListCreateView", "AuthorDetailView"} -> "IsAuthenticatedOrReadOnly"
      [] view \in {"BookListView", "BookDetailView", "BookDeleteView"} -> "AllowAny"
      [] view \in {"BookCreateView", "BookUpdateView"} -> "IsAuthenticated"

\* permission_classes of each view
PermissionClass(view) ==
    CASE view \in {"AuthorListCreateView", "AuthorDetailView"} -> "IsAuthenticatedOrReadOnly"
      [] view \in {"BookListView", "BookDetailView"} -> "AllowAny"
      [] view \in {"BookCreateView", "BookUpdateView", "BookDeleteView"} -> "IsAuthenticated"

ApiAuthorIds == {a.id : a \in apiAuthors}
ApiBookIds == {b.id : b \in apiBooks}
AuthorByPk(pk) == CHOOSE a \in apiAuthors : a.id = pk
BookByPk(pk) == CHOOSE b \in apiBooks : b.id = pk

\* author.books, the related_name of Book.author
BooksOf(pk) == {b \in apiBooks : b.author = pk}

\* the ordering query parameter: a field name, with a leading "-" to descend
NoOrdering == [desc |-> FALSE, field |-> ""]

\* a response; list and detail reads fill rows, validation fills errors
ApiResponse(op, auth, method, pk, status) ==
    [op |-> op, auth |-> auth, method |-> method, pk |-> pk, status |-> status,
     errors |-> {}, has_year |-> FALSE, year |-> 0, today |-> today,
     decade |-> <<>>, search |-> <<>>, year_after |-> <<>>, year_before |-> <<>>,
     ordering |-> NoOrdering, rows |-> <<>>]

\* check_permissions failing for a client without credentials: NotAuthenticated
\* is answered 401 when the first authenticator names a WWW-Authenticate scheme,
\* else 403; the project's settings decide which
PermissionDenied(op, auth, method, pk) ==
    /\ \E st \in {401, 403} : apiResp' = ApiResponse(op, auth, method, pk, st)
    /\ UNCHANGED <<apiAuthors, apiBooks, nextAuthorPk, nextBookPk, today>>

\* get_object finding no row
NotFound(op, auth, method, pk) ==
    /\ apiResp' = ApiResponse(op, auth, method, pk, 404)
    /\ UNCHANGED <<apiAuthors, apiBooks, nextAuthorPk, nextBookPk, today>>

\* a validator accepting next year as well
validate_publication_year_lenient(value) ==
    LET current_year == today
    IN ~(value > current_year + 1)

\* BookSerializer.validate_publication_year: TRUE when the value is returned,
\* FALSE when ValidationError is raised
validate_publication_year(value) ==
    LET current_year == today
    IN ~(value > current_year)

\* what a request body carries: the fields in has, with their values
BookFields == {"title", "publication_year", "author"}
NoInstance == [id |-> 0, title |-> <<>>, publication_year |-> 0, author |-> 0]

\* the fields of BookSerializer that fail: a field absent from a full update
\* or a create, a blank title, a future year, an author that does not exist
BookFieldErrors(data, partial) ==
    {f \in BookFields :
        IF f \notin data.has THEN ~partial
        ELSE CASE f = "title" -> Strip(data.title) = <<>>
               [] f = "publication_year" -> ~validate_publication_year(data.publication_year)
               [] f = "author" -> data.author \notin ApiAuthorIds}

\* validated_data applied to the instance (serializer.save)
BookSaved(data, instance, pk) ==
    [id |-> pk,
     title |-> IF "title" \in data.has THEN Strip(data.title) ELSE instance.title,
     publication_year |-> IF "publication_year" \in data.has THEN data.publication_year
                          ELSE instance.publication_year,
     author |-> IF "author" \in data.has THEN data.author ELSE instance.author]

\* UniqueTogetherValidator of Meta.unique_together, run once the fields are valid
BookSerializerErrors(data, partial, instance) ==
    LET fe == BookFieldErrors(data, partial)
        v == BookSaved(data, instance, instance.id)
    IN IF fe # {} THEN fe
       ELSE IF \E b \in apiBooks : b.id # instance.id /\ b.title = v.title /\ b.author = v.author
            THEN {"non_field_errors"}
            ELSE {}

\* the year a request body carries, recorded with the response
WithYear(r, data) ==
    IF "publication_year" \in data.has
    THEN [r EXCEPT !.has_year = TRUE, !.year = data.publication_year]
    ELSE r

\* BookCreateView: POST /books/create/
BookCreateView(auth, data) ==
    /\ IF ~HasPermission(PermissionClass("BookCreateView"), "POST", auth)
       THEN PermissionDenied("book_create", auth, "POST", 0)
       ELSE LET errs == BookSerializerErrors(data, FALSE, NoInstance)
                r == WithYear(ApiResponse("book_create", auth, "POST", 0, 400), data)
            IN IF errs # {}
               THEN /\ apiResp' = [r EXCEPT !.errors = errs]
                    /\ UNCHANGED <<apiAuthors, apiBooks, nextAuthorPk, nextBookPk, today>>
               ELSE /\ nextBookPk <= MaxApiBooks
                    /\ apiBooks' = apiBooks \cup {BookSaved(data, NoInstance, nextBookPk)}
                    /\ nextBookPk' = nextBookPk + 1
                    /\ apiResp' = [r EXCEPT !.status = 201, !.pk = nextBookPk]
                    /\ UNCHANGED <<apiAuthors, nextAuthorPk, today>>
    /\ UNCHANGED notApi

\* BookUpdateView: PUT or PATCH /books/<pk>/update/
BookUpdateView(auth, method, pk, data) ==
    /\ IF ~HasPermission(PermissionClass("BookUpdateView"), method, auth)
       THEN PermissionDenied("book_update", auth, method, pk)
       ELSE IF pk \notin ApiBookIds THEN NotFound("book_update", auth, method, pk)
       ELSE LET partial == (method = "PATCH")
                instance == BookByPk(pk)
                errs == BookSerializerErrors(data, partial, instance)
                r == WithYear(ApiResponse("book_update", auth, method, pk, 400), data)
            IN IF errs # {}
               THEN /\ apiResp' = [r EXCEPT !.errors = errs]
                    /\ UNCHANGED <<apiAuthors, apiBooks, nextAuthorPk, nextBookPk, today>>
               ELSE /\ apiBooks' = (apiBooks \ {instance}) \cup {BookSaved(data, instance, pk)}
                    /\ apiResp' = [r EXCEPT !.status = 200]
                    /\ UNCHANGED <<apiAuthors, nextAuthorPk, nextBookPk, today>>
    /\ UNCHANGED notApi

\* BookDeleteView: DELETE /books/<pk>/delete/
BookDeleteView(auth, pk) ==
    /\ IF ~HasPermission(PermissionClass("BookDeleteView"), "DELETE", auth)
       THEN PermissionDenied("book_delete", auth, "DELETE", pk)
       ELSE IF pk \notin ApiBookIds THEN NotFound("book_delete", auth, "DELETE", pk)
       ELSE /\ apiBooks' = apiBooks \ {BookByPk(pk)}
            /\ apiResp' = ApiResponse("book_delete", auth, "DELETE", pk, 204)
            /\ UNCHANGED <<apiAuthors, nextAuthorPk, nextBookPk, today>>
    /\ UNCHANGED notApi

\* BookDetailView: GET /books/<pk>/
BookDetailView(auth, pk) ==
    /\ IF ~HasPermission(PermissionClass("BookDetailView"), "GET", auth)
       THEN PermissionDenied("book_detail", auth, "GET", pk)
       ELSE IF pk \notin ApiBookIds THEN NotFound("book_detail", auth, "GET", pk)
       ELSE /\ apiResp' = [ApiResponse("book_detail", auth, "GET", pk, 200)
                              EXCEPT !.rows = <<BookByPk(pk)>>]
            /\ UNCHANGED <<apiAuthors, apiBooks, nextAuthorPk, nextBookPk, today>>
    /\ UNCHANGED notApi

\* the nested representation AuthorSerializer gives an author
AuthorRow(a) == [id |-> a.id, name |-> a.name, books |-> BooksOf(a.id)]

\* AuthorListCreateView.post: POST /authors/
AuthorCreate(auth, name) ==
    /\ IF ~HasPermission(PermissionClass("AuthorListCreateView"), "POST", auth)
       THEN PermissionDenied("author_create", auth, "POST", 0)
       ELSE IF Strip(name) = <<>>
       THEN /\ apiResp' = [ApiResponse("author_create", auth, "POST", 0, 400)
                              EXCEPT !.errors = {"name"}]
            /\ UNCHANGED <<apiAuthors, apiBooks, nextAuthorPk, nextBookPk, today>>
       ELSE /\ nextAuthorPk <= MaxApiAuthors
            /\ apiAuthors' = apiAuthors \cup {[id |-> nextAuthorPk, name |-> Strip(name)]}
            /\ nextAuthorPk' = nextAuthorPk + 1
            /\ apiResp' = ApiResponse("author_create", auth, "POST", nextAuthorPk, 201)
            /\ UNCHANGED <<apiBooks, nextBookPk, today>>
    /\ UNCHANGED notApi

\* AuthorDetailView: PUT or PATCH /authors/<pk>/
AuthorUpdate(auth, method, pk, name) ==
    /\ IF ~HasPermission(PermissionClass("AuthorDetailView"), method, auth)
       THEN PermissionDenied("author_update", auth, method, pk)
       ELSE IF pk \notin ApiAuthorIds THEN NotFound("author_update", auth, method, pk)
       ELSE IF Strip(name) = <<>>
       THEN /\ apiResp' = [ApiResponse("author_update", auth, method, pk, 400)
                              EXCEPT !.errors = {"name"}]
            /\ UNCHANGED <<apiAuthors, apiBooks, nextAuthorPk, nextBookPk, today>>
       ELSE /\ apiAuthors' = (apiAuthors \ {AuthorByPk(pk)}) \cup
                                {[id |-> pk, name |-> Strip(name)]}
            /\ apiResp' = ApiResponse("author_update", auth, method, pk, 200)
            /\ UNCHANGED <<apiBooks, nextAuthorPk, nextBookPk, today>>
    /\ UNCHANGED notApi

\* a foreign key that leaves the books of a deleted author in the table
on_delete_DO_NOTHING(books, pk) == books

\* Book.author, on_delete=models.CASCADE: the books left when author pk is deleted
on_delete_CASCADE(books, pk) == {b \in books : b.author # pk}

\* AuthorDetailView: DELETE /authors/<pk>/ (instance.delete() in perform_destroy)
AuthorDelete(auth, pk) ==
    /\ IF ~HasPermission(PermissionClass("AuthorDetailView"), "DELETE", auth)
       THEN PermissionDenied("author_delete", auth, "DELETE", pk)
       ELSE IF pk \notin ApiAuthorIds THEN NotFound("author_delete", auth, "DELETE", pk)
       ELSE /\ apiAuthors' = apiAuthors \ {AuthorByPk(pk)}
            /\ apiBooks' = on_delete_CASCADE(apiBooks, pk)
            /\ apiResp' = ApiResponse("author_delete", auth, "DELETE", pk, 204)
            /\ UNCHANGED <<nextAuthorPk, nextBookPk, today>>
    /\ UNCHANGED notApi

\* AuthorDetailView: GET /authors/<pk>/
AuthorDetail(auth, pk) ==
    /\ IF ~HasPermission(PermissionClass("AuthorDetailView"), "GET", auth)
       THEN PermissionDenied("author_detail", auth, "GET", pk)
       ELSE IF pk \notin ApiAuthorIds THEN NotFound("author_detail", auth, "GET", pk)
       ELSE /\ apiResp' = [ApiResponse("author_detail", auth, "GET", pk, 200)
                              EXCEPT !.rows = <<AuthorRow(AuthorByPk(pk))>>]
            /\ UNCHANGED <<apiAuthors, apiBooks, nextAuthorPk, nextBookPk, today>>
    /\ UNCHANGED notApi

\* date.today() moving into the next year
NewYear ==
    /\ today < LastYear
    /\ today' = today + 1
    /\ UNCHANGED <<apiAuthors, apiBooks, nextAuthorPk, nextBookPk, apiResp>>
    /\ UNCHANGED notApi

(***************************************************************************)
(* advanced-api-project: filtering, search and ordering of the list views  *)
(***************************************************************************)

\* the code point of a character, which the database compares text by
Ord(c) ==
    CASE c = " " -> 32 [] c = "," -> 44 [] c = "A" -> 65 [] c = "B" -> 66 [] c = "C" -> 67
      [] c = "D" -> 68 [] c = "P" -> 80 [] c = "W" -> 87
      [] c = "a" -> 97 [] c = "b" -> 98 [] c = "c" -> 99 [] c = "d" -> 100 [] c = "e" -> 101
      [] c = "p" -> 112 [] c = "w" -> 119 [] OTHER -> 127

\* s sorts before t
RECURSIVE StrLess(_, _)
StrLess(s, t) ==
    IF t = <<>> THEN FALSE
    ELSE IF s = <<>> THEN TRUE
    ELSE IF Head(s) = Head(t) THEN StrLess(Tail(s), Tail(t))
    ELSE Ord(Head(s)) < Ord(Head(t))

\* the orders a queryset of rows can come back in
Perms(S) == {f \in [1..Cardinality(S) -> S] : \A x \in S : \E i \in 1..Cardinality(S) : f[i] = x}

\* the lookups icontains, istartswith and iexact
IContains(text, value) == Contains(Lower(text), Lower(value))
IStartsWith(text, value) ==
    Len(value) <= Len(text) /\ SubSeq(Lower(text), 1, Len(value)) = Lower(value)
IExact(text, value) == Lower(text) = Lower(value)

\* int() of a string of digits
DigitValue(c) ==
    CASE c = "0" -> 0 [] c = "1" -> 1 [] c = "2" -> 2 [] c = "3" -> 3 [] c = "4" -> 4
      [] c = "5" -> 5 [] c = "6" -> 6 [] c = "7" -> 7 [] c = "8" -> 8 [] c = "9" -> 9

RECURSIVE ParseInt(_)
ParseInt(s) ==
    IF s = <<>> THEN 0
    ELSE 10 * ParseInt(SubSeq(s, 1, Len(s) - 1)) + DigitValue(s[Len(s)])

\* BookFilter.decade: the values of its choices, in their order
DecadeChoices ==
    << <<"1","9","0","0","s">>, <<"1","9","1","0","s">>, <<"1","9","2","0","s">>,
       <<"1","9","3","0","s">>, <<"1","9","4","0","s">>, <<"1","9","5","0","s">>,
       <<"1","9","6","0","s">>, <<"1","9","7","0","s">>, <<"1","9","8","0","s">>,
       <<"1","9","9","0","s">>, <<"2","0","0","0","s">>, <<"2","0","1","0","s">>,
       <<"2","0","2","0","s">> >>

DecadeValues == {DecadeChoices[i] : i \in 1..Len(DecadeChoices)}

\* a decade whose last year is left out
filter_by_decade_exclusive(queryset, value) ==
    IF value = <<>> THEN queryset
    ELSE LET decade_start == ParseInt(SubSeq(value, 1, 4))
             decade_end == decade_start + 9
         IN {b \in queryset : b.publication_year >= decade_start
                                /\ b.publication_year < decade_end}

\* BookFilter.filter_by_decade
filter_by_decade(queryset, value) ==
    IF value = <<>> THEN queryset
    ELSE LET decade_start == ParseInt(SubSeq(value, 1, 4))
             decade_end == decade_start + 9
         IN {b \in queryset : b.publication_year >= decade_start
                                /\ b.publication_year <= decade_end}

\* a search that tells upper case from lower case
filter_search_case_sensitive(queryset, value) ==
    IF value = <<>> THEN queryset
    ELSE {b \in queryset : \/ Contains(b.title, value)
                           \/ Contains(AuthorByPk(b.author).name, value)}

\* BookFilter.filter_search
filter_search(queryset, value) ==
    IF value = <<>> THEN queryset
    ELSE {b \in queryset : \/ IContains(b.title, value)
                           \/ IContains(AuthorByPk(b.author).name, value)}

\* NumberFilter's form field: a text of decimal digits is a number, an empty
\* text no value, any other text of the request an invalid value
IsNumber(text) ==
    text # <<>> /\ \A i \in 1..Len(text) :
                     text[i] \in {"0", "1", "2", "3", "4", "5", "6", "7", "8", "9"}

\* a bound that lets the year itself through
year_after_inclusive(queryset, value) ==
    {b \in queryset : b.publication_year >= ParseInt(value)}

\* BookFilter.year_after: publication_year__gt
year_after(queryset, value) ==
    {b \in queryset : b.publication_year > ParseInt(value)}

\* BookFilter.year_before: publication_year__lt
year_before(queryset, value) ==
    {b \in queryset : b.publication_year < ParseInt(value)}

\* DjangoFilterBackend with BookFilter: the form strips the text of search and
\* leaves out a filter whose cleaned value is empty
BookFilterQueryset(queryset, decade, search, after, before) ==
    LET byAfter == IF after = <<>> THEN queryset ELSE year_after(queryset, after)
        byBefore == IF before = <<>> THEN byAfter ELSE year_before(byAfter, before)
        byDecade == IF decade = <<>> THEN byBefore ELSE filter_by_decade(byBefore, decade)
        value == Strip(search)
    IN IF value = <<>> THEN byDecade ELSE filter_search(byDecade, value)

\* the parameters of a list request the filter form refuses
BookFilterErrors(decade, after, before) ==
    {f \in {"decade"} : decade # <<>> /\ decade \notin DecadeValues}
    \cup {f \in {"year_after"} : after # <<>> /\ ~IsNumber(after)}
    \cup {f \in {"year_before"} : before # <<>> /\ ~IsNumber(before)}

\* SearchFilter.get_search_terms: commas count as spaces, then the text is
\* split at white space
RECURSIVE SplitTerms(_, _)
SplitTerms(text, word) ==
    IF text = <<>> THEN (IF word = <<>> THEN <<>> ELSE <<word>>)
    ELSE IF Head(text) \in {" ", ","}
         THEN (IF word = <<>> THEN <<>> ELSE <<word>>) \o SplitTerms(Tail(text), <<>>)
         ELSE SplitTerms(Tail(text), Append(word, Head(text)))

get_search_terms(search) == SplitTerms(search, <<>>)

\* BookListView.search_fields: 'title', 'author__name', '^title', '=title'
BookSearchMatch(b, term) ==
    \/ IContains(b.title, term)
    \/ IContains(AuthorByPk(b.author).name, term)
    \/ IStartsWith(b.title, term)
    \/ IExact(b.title, term)

\* SearchFilter.filter_queryset: every term has to match some search field
SearchFilterQueryset(queryset, search) ==
    LET terms == get_search_terms(search)
    IN IF terms = <<>> THEN queryset
       ELSE {b \in queryset : \A i \in 1..Len(terms) : BookSearchMatch(b, terms[i])}

\* OrderingFilter with BookListView.ordering: by title
BooksByTitle(queryset) ==
    {rows \in Perms(queryset) :
        \A i, j \in 1..Len(rows) : i < j => ~StrLess(rows[j].title, rows[i].title)}

\* BookListView: GET /books/ with the decade, search, year_after and
\* year_before parameters
BookListView(auth, decade, search, after, before) ==
    /\ LET r == [ApiResponse("book_list", auth, "GET", 0, 200)
                    EXCEPT !.decade = decade, !.search = search,
                           !.year_after = after, !.year_before = before]
           errors == BookFilterErrors(decade, after, before)
       IN IF ~HasPermission(PermissionClass("BookListView"), "GET", auth)
          THEN PermissionDenied("book_list", auth, "GET", 0)
          ELSE IF errors # {}
          THEN /\ apiResp' = [r EXCEPT !.status = 400, !.errors = errors]
               /\ UNCHANGED <<apiAuthors, apiBooks, nextAuthorPk, nextBookPk, today>>
          ELSE /\ \E rows \in BooksByTitle(SearchFilterQueryset(
                                    BookFilterQueryset(apiBooks, decade, search, after, before),
                                    search)) :
                      apiResp' = [r EXCEPT !.rows = rows]
               /\ UNCHANGED <<apiAuthors, apiBooks, nextAuthorPk, nextBookPk, today>>
    /\ UNCHANGED notApi

\* AuthorListCreateView.ordering_fields and .ordering
AuthorOrderingFields == {"name", "id"}
AuthorDefaultOrdering == [desc |-> FALSE, field |-> "name"]

\* OrderingFilter.get_ordering: the terms of the parameter that name a field
\* of ordering_fields; when none is left, the view's ordering
AuthorOrdering(param) ==
    IF param.field # "" /\ param.field \in AuthorOrderingFields THEN param
    ELSE AuthorDefaultOrdering

\* row a has to come before row b under order_by(term); book_count is the
\* annotation Count('books') of get_queryset
AuthorBefore(term, a, b) ==
    LET less(x, y) == CASE term.field = "name" -> StrLess(x.name, y.name)
                        [] term.field = "id" -> x.id < y.id
                        [] term.field = "book_count" ->
                               Cardinality(x.books) < Cardinality(y.books)
    IN IF term.desc THEN less(b, a) ELSE less(a, b)

\* AuthorListCreateView.get: GET /authors/ with the ordering parameter
AuthorList(auth, ordering) ==
    /\ IF ~HasPermission(PermissionClass("AuthorListCreateView"), "GET", auth)
       THEN PermissionDenied("author_list", auth, "GET", 0)
       ELSE LET term == AuthorOrdering(ordering)
                queryset == {AuthorRow(a) : a \in apiAuthors}
            IN /\ \E rows \in {f \in Perms(queryset) :
                                 \A i, j \in 1..Len(f) : i < j => ~AuthorBefore(term, f[j], f[i])} :
                      apiResp' = [ApiResponse("author_list", auth, "GET", 0, 200)
                                     EXCEPT !.ordering = ordering, !.rows = rows]
               /\ UNCHANGED <<apiAuthors, apiBooks, nextAuthorPk, nextBookPk, today>>
    /\ UNCHANGED notApi

\* the keys of a paginated response's data: count, next, previous, results
PaginatedKeys == {"count", "next", "previous", "results"}

\* ListAPIView.list: the serialized rows, or with a pagination class
\* (page_size > 0) the paginated response of the first page; len is len(data)
ListResponseData(rows, size) ==
    IF size = 0
    THEN [paginated |-> FALSE, len |-> Len(rows), count |-> Len(rows), results |-> rows]
    ELSE [paginated |-> TRUE, len |-> Cardinality(PaginatedKeys), count |-> Len(rows),
          results |-> PageOf(rows, 1, size)]

\* BooksByAuthorView.list: GET /books/by-author/<author_id>/ under a project
\* whose REST_FRAMEWORK settings name no pagination class (size 0) or one
\* with PAGE_SIZE size
BooksByAuthorView(author_id, size) ==
    /\ IF author_id \notin ApiAuthorIds
       THEN apiResp' = [has_books |-> FALSE, has_error |-> TRUE]
                       @@ ApiResponse("books_by_author", FALSE, "GET", author_id, 404)
       ELSE \E rows \in BooksByTitle({b \in apiBooks : b.author = author_id}) :
              LET data == ListResponseData(rows, size)
              IN apiResp' = [has_books |-> TRUE, has_error |-> FALSE,
                             books_count |-> data.len, books |-> data,
                             author |-> AuthorRow(AuthorByPk(author_id))]
                            @@ [ApiResponse("books_by_author", FALSE, "GET", author_id, 200)
                                   EXCEPT !.rows = data.results]
    /\ UNCHANGED <<apiAuthors, apiBooks, nextAuthorPk, nextBookPk, today>>
    /\ UNCHANGED notApi

(***************************************************************************)
(* advanced-api-project: the requests of the specifications                *)
(***************************************************************************)

ApiPks == 1..MaxApiBooks
ApiAuthorPks == 1..MaxApiAuthors
ApiYears == {FirstYear, FirstYear + 1}

\* request bodies: complete ones for the first author, one with a blank title,
\* ones that only carry a year
ApiBookData ==
    {[has |-> BookFields, title |-> <<"a">>, publication_year |-> y, author |-> 1] :
        y \in ApiYears}
    \cup {[has |-> BookFields, title |-> <<>>, publication_year |-> FirstYear, author |-> 1]}
    \cup {[has |-> {"publication_year"}, title |-> <<>>, publication_year |-> y, author |-> 0] :
            y \in ApiYears}

\* a client with credentials sends any of the bodies, one without sends one
ApiBookWrites ==
    ({TRUE} \X ApiBookData)
    \cup {<<FALSE, [has |-> {"publication_year"}, title |-> <<>>,
                    publication_year |-> FirstYear + 1, author |-> 0]>>}

\* writes by clients with and without credentials, reads, and the turn of the year
ApiNext ==
    \/ \E auth \in BOOLEAN, name \in {<<"a">>, <<>>} : AuthorCreate(auth, name)
    \/ \E auth \in BOOLEAN, method \in {"PUT", "PATCH"}, pk \in ApiAuthorPks,
          name \in {<<"c">>, <<>>} : AuthorUpdate(auth, method, pk, name)
    \/ \E auth \in BOOLEAN, pk \in ApiAuthorPks : AuthorDelete(auth, pk)
    \/ \E pk \in ApiAuthorPks : AuthorDetail(FALSE, pk)
    \/ AuthorList(FALSE, NoOrdering)
    \/ \E w \in ApiBookWrites : BookCreateView(w[1], w[2])
    \/ \E w \in ApiBookWrites, method \in {"PUT", "PATCH"}, pk \in ApiPks :
          BookUpdateView(w[1], method, pk, w[2])
    \/ \E auth \in BOOLEAN, pk \in ApiPks : BookDeleteView(auth, pk)
    \/ \E pk \in ApiPks : BookDetailView(FALSE, pk)
    \/ BookListView(FALSE, <<>>, <<>>, <<>>, <<>>)
    \/ NewYear

SpecApi == InitApi /\ [][ApiNext]_vars

\* books of either author, and of an author id that is never stored; a change
\* of a book's author alone
CascadeBookData ==
    {[has |-> BookFields, title |-> t, publication_year |-> FirstYear, author |-> a] :
        t \in {<<"a">>, <<"b">>}, a \in 1..(MaxApiAuthors + 1)}

CascadeAuthorChanges ==
    {[has |-> {"author"}, title |-> <<>>, publication_year |-> 0, author |-> a] :
        a \in 1..(MaxApiAuthors + 1)}

\* clients with credentials create, update and delete authors and books
CascadeNext ==
    \/ AuthorCreate(TRUE, <<"a">>)
    \/ \E pk \in ApiAuthorPks : AuthorUpdate(TRUE, "PUT", pk, <<"c">>)
    \/ \E pk \in ApiAuthorPks : AuthorDelete(TRUE, pk)
    \/ \E data \in CascadeBookData : BookCreateView(TRUE, data)
    \/ \E data \in CascadeAuthorChanges, pk \in ApiPks : BookUpdateView(TRUE, "PATCH", pk, data)
    \/ \E pk \in ApiPks : BookDeleteView(TRUE, pk)

SpecCascade == InitApi /\ [][CascadeNext]_vars

\* the books a librarian enters before the list views are queried
QueryBookData ==
    {[has |-> BookFields, title |-> <<"a", " ", "b">>, publication_year |-> 1989, author |-> 1],
     [has |-> BookFields, title |-> <<"b", " ", "a">>, publication_year |-> 1990, author |-> 1],
     [has |-> BookFields, title |-> <<"c">>, publication_year |-> 1999, author |-> 2],
     [has |-> BookFields, title |-> <<"a", " ", "b">>, publication_year |-> 2000, author |-> 2]}

\* search texts: one word in either case, two words, a word followed by a
\* space, a lone space
QuerySearches ==
    {<<>>, <<"A">>, <<"c">>, <<"a", " ", "b">>, <<"a", " ">>, <<" ">>}

QueryDecades == DecadeValues \cup {<<>>, <<"1","8","9","0","s">>}

\* year bounds: none, a year with a book of that very year stored, a text that
\* is no number
QueryYears == {<<>>, <<"1", "9", "9", "0">>, <<"1", "9", "9", "9">>, <<"x">>}

\* a list request bounds the year from one side, or from both
QueryYearParams ==
    {p \in QueryYears \X QueryYears : p[1] # <<>> \/ p[2] # <<>>}

\* a list request filters by decade or searches
QueryListParams ==
    {p \in QueryDecades \X QuerySearches : p[1] = <<>> \/ p[2] = <<>>}

QueryOrderings ==
    {NoOrdering} \cup {[desc |-> d, field |-> f] : d \in BOOLEAN, f \in {"name", "id", "book_count"}}

QueryNext ==
    \/ \E name \in {<<"a">>, <<"c">>} : AuthorCreate(TRUE, name)
    \/ \E data \in QueryBookData : BookCreateView(TRUE, data)
    \/ \E p \in QueryListParams : BookListView(FALSE, p[1], p[2], <<>>, <<>>)
    \/ \E p \in QueryYearParams : BookListView(FALSE, <<>>, <<>>, p[1], p[2])
    \/ \E author_id \in 1..(MaxApiAuthors + 1), size \in {0, 1, page_size} :
          BooksByAuthorView(author_id, size)
    \/ \E ordering \in QueryOrderings : AuthorList(FALSE, ordering)

SpecQuery == InitApi /\ [][QueryNext]_vars

(***************************************************************************)
(* advanced-api-project: properties                                        *)
(***************************************************************************)

\* C6: a request without credentials to create, update (PUT or PATCH) or
\* delete a book or an author is answered 401 or 403 and leaves the Book and
\* Author tables as they were; a client without credentials reading the list
\* of books or of authors, or the detail of a stored book or author, gets 200
C6_AnonymousWritesRefused ==
    [][LET r == apiResp'
       IN /\ (r.op \in {"book_create", "book_update", "book_delete",
                        "author_create", "author_update", "author_delete"} /\ ~r.auth)
                => /\ r.status \in {401, 403}
                   /\ apiBooks' = apiBooks
                   /\ apiAuthors' = apiAuthors
          /\ (r.op \in {"book_list", "author_list"} /\ ~r.auth
                /\ r.decade \in DecadeValues \cup {<<>>})
                => r.status = 200
          /\ (r.op = "book_detail" /\ ~r.auth /\ r.pk \in {b.id : b \in apiBooks})
                => (r.status = 200 /\ \E b \in apiBooks : r.rows = <<b>> /\ b.id = r.pk)
          /\ (r.op = "author_detail" /\ ~r.auth /\ r.pk \in {a.id : a \in apiAuthors})
                => (r.status = 200 /\ r.rows[1].id = r.pk)]_vars

\* a PATCH of a stored book without credentials has been refused
C6_Witness ==
    /\ apiResp.op = "book_update" /\ apiResp.method = "PATCH" /\ ~apiResp.auth
    /\ apiResp.status \in {401, 403}
    /\ \E b \in apiBooks : b.id = apiResp.pk /\ b.publication_year = FirstYear

\* C7: a create, or an update (PUT or PATCH) of a stored book, sent with
\* credentials and a publication_year above the current year is answered 400
\* with an error for publication_year and stores or changes nothing; with a
\* publication_year equal to or below the current year the response carries no
\* error for publication_year
C7_FutureYearRejected ==
    [][LET r == apiResp'
       IN (/\ r.op \in {"book_create", "book_update"}
           /\ r.auth
           /\ r.op = "book_update" => r.pk \in {b.id : b \in apiBooks}
           /\ r.has_year)
             => IF r.year > r.today
                THEN /\ r.status = 400
                     /\ "publication_year" \in r.errors
                     /\ apiBooks' = apiBooks
                     /\ apiAuthors' = apiAuthors
                ELSE "publication_year" \notin r.errors]_vars

\* a PATCH of a stored book to the year after the current one has been rejected
C7_Witness ==
    /\ apiResp.op = "book_update" /\ apiResp.method = "PATCH" /\ apiResp.auth
    /\ apiResp.has_year /\ apiResp.year = apiResp.today + 1
    /\ apiResp.status = 400 /\ apiResp.errors = {"publication_year"}
    /\ \E b \in apiBooks : b.id = apiResp.pk /\ b.publication_year = FirstYear

\* the books a list response carries
ListedBooks == {apiResp.rows[k] : k \in 1..Len(apiResp.rows)}

C9_AuthorsOrderedByBookCount ==
    (apiResp.op = "author_list" /\ apiResp.ordering.field = "book_count") =>
        \A i, j \in 1..Len(apiResp.rows) :
            i < j => IF apiResp.ordering.desc
                     THEN Cardinality(apiResp.rows[i].books) >= Cardinality(apiResp.rows[j].books)
                     ELSE Cardinality(apiResp.rows[i].books) <= Cardinality(apiResp.rows[j].books)

C23_BooksByAuthorExact ==
    apiResp.op = "books_by_author" =>
        IF \E a \in apiAuthors : a.id = apiResp.pk
        THEN /\ apiResp.status = 200
             /\ ListedBooks = {b \in apiBooks : b.author = apiResp.pk}
             /\ apiResp.books_count = Cardinality({b \in apiBooks : b.author = apiResp.pk})
        ELSE /\ apiResp.status = 404
             /\ apiResp.has_error /\ ~apiResp.has_books

\* C24: an author delete answered 204 removes the author, every book of that
\* author and no other book; and every stored book references a stored author
C24_AuthorDeleteCascades ==
    /\ [](\A b \in apiBooks : \E a \in apiAuthors : a.id = b.author)
    /\ [][LET r == apiResp'
          IN (r.op = "author_delete" /\ r.status = 204) =>
                /\ apiAuthors' = {a \in apiAuthors : a.id # r.pk}
                /\ apiBooks' = {b \in apiBooks : b.author # r.pk}]_vars

\* the first author has just been deleted, two books have been entered, and a
\* book of the second author is still stored
C24_Witness ==
    /\ apiResp.op = "author_delete" /\ apiResp.status = 204 /\ apiResp.pk = 1
    /\ nextBookPk = 3
    /\ \E b \in apiBooks : b.author = 2
    /\ \A b \in apiBooks : b.author # 1

\* the title of b or the name of its author contains q, whatever the case
TitleOrAuthorHas(b, q) ==
    \/ Contains(Lower(b.title), Lower(q))
    \/ \E a \in apiAuthors : a.id = b.author /\ Contains(Lower(a.name), Lower(q))

RoleChoices == {"Admin", "Librarian", "Member"}

ProfilesOf(rows, u) == {p \in rows : p.user = u}

\* hasattr(user, 'userprofile')
HasProfile(rows, u) == ProfilesOf(rows, u) # {}

\* user.userprofile.role
RoleOf(rows, u) == (CHOOSE p \in ProfilesOf(rows, u) : TRUE).role

\* UserProfile.objects.create(user=u, role=role): the OneToOneField is unique, so
\* the insert fails with IntegrityError when u already has a row
ProfileCreate(rows, u, role) ==
    IF HasProfile(rows, u) THEN rows ELSE rows \cup {[user |-> u, role |-> role]}

\* post_save receiver: a profile with the default role for a user just created
create_user_profile(rows, u, created) ==
    IF created THEN ProfileCreate(rows, u, "Member") ELSE rows

\* a receiver that writes the default role back on every save
save_user_profile_resetting(rows, u) ==
    IF HasProfile(rows, u)
    THEN (rows \ ProfilesOf(rows, u)) \cup {[user |-> u, role |-> "Member"]}
    ELSE rows

\* post_save receiver: instance.userprofile.save() writes the profile's own
\* fields back; UserProfile.DoesNotExist is swallowed
save_user_profile(rows, u) ==
    IF HasProfile(rows, u)
    THEN (rows \ ProfilesOf(rows, u)) \cup {[user |-> u, role |-> RoleOf(rows, u)]}
    ELSE rows

\* the receivers of post_save(sender=User), in the order they are connected
PostSave(rows, u, created) == save_user_profile(create_user_profile(rows, u, created), u)

RoleDone(op, u, status) == [op |-> op, user |-> u, status |-> status]

\* User.objects.create_user(username=u, ...)
CreateUser(u) ==
    /\ u \notin libUsers
    /\ libUsers' = libUsers \cup {u}
    /\ profileRows' = PostSave(profileRows, u, TRUE)
    /\ roleLast' = RoleDone("create_user", u, 0)
    /\ UNCHANGED notRoles

\* user.save() of a stored user
SaveUser(u) ==
    /\ u \in libUsers
    /\ profileRows' = PostSave(profileRows, u, FALSE)
    /\ roleLast' = RoleDone("save_user", u, 0)
    /\ UNCHANGED libUsers
    /\ UNCHANGED notRoles

\* user.userprofile.role = role; user.userprofile.save()
SetRole(u, role) ==
    /\ u \in libUsers
    /\ HasProfile(profileRows, u)
    /\ profileRows' = (profileRows \ ProfilesOf(profileRows, u)) \cup {[user |-> u, role |-> role]}
    /\ roleLast' = RoleDone("set_role", u, 0)
    /\ UNCHANGED libUsers
    /\ UNCHANGED notRoles

\* fix_profiles.create_missing_profiles: a Member profile for every user without one
FixProfiles ==
    /\ profileRows' = profileRows \cup
           {[user |-> u, role |-> "Member"] : u \in {v \in libUsers : ~HasProfile(profileRows, v)}}
    /\ roleLast' = RoleDone("fix_profiles", "none", 0)
    /\ UNCHANGED libUsers
    /\ UNCHANGED notRoles

is_authenticated(u) == u # Anonymous

\* a role check that forgets to compare the role
is_admin_any_role(rows, u) == is_authenticated(u) /\ HasProfile(rows, u)

is_admin(rows, u) ==
    is_authenticated(u) /\ HasProfile(rows, u) /\ RoleOf(rows, u) = "Admin"

is_librarian(rows, u) ==
    is_authenticated(u) /\ HasProfile(rows, u) /\ RoleOf(rows, u) = "Librarian"

is_member(rows, u) ==
    is_authenticated(u) /\ HasProfile(rows, u) /\ RoleOf(rows, u) = "Member"

\* @user_passes_test(test_func): the view renders when the test passes, every
\* other request is redirected to the login page
UserPassesTest(passes) == IF passes THEN 200 ELSE 302

RoleRequesters == libUsers \cup {Anonymous}

admin_view(u) ==
    /\ u \in RoleRequesters
    /\ roleLast' = RoleDone("admin_view", u, UserPassesTest(is_admin(profileRows, u)))
    /\ UNCHANGED <<libUsers, profileRows>>
    /\ UNCHANGED notRoles

librarian_view(u) ==
    /\ u \in RoleRequesters
    /\ roleLast' = RoleDone("librarian_view", u, UserPassesTest(is_librarian(profileRows, u)))
    /\ UNCHANGED <<libUsers, profileRows>>
    /\ UNCHANGED notRoles

member_view(u) ==
    /\ u \in RoleRequesters
    /\ roleLast' = RoleDone("member_view", u, UserPassesTest(is_member(profileRows, u)))
    /\ UNCHANGED <<libUsers, profileRows>>
    /\ UNCHANGED notRoles

\* the accounts the role scripts create
RoleUsers == {"alice", "bob", "carol"}

DashboardsNext ==
    \/ \E u \in RoleUsers : CreateUser(u)
    \/ \E u \in RoleUsers : SaveUser(u)
    \/ \E u \in UserNames, r \in RoleChoices : SetRole(u, r)
    \/ FixProfiles
    \/ \E u \in UserNames \cup {Anonymous} : admin_view(u)
    \/ \E u \in UserNames \cup {Anonymous} : librarian_view(u)
    \/ \E u \in UserNames \cup {Anonymous} : member_view(u)

SpecDashboards == InitDashboards /\ [][DashboardsNext]_vars

ProfilesNext ==
    \/ \E u \in UserNames : CreateUser(u)
    \/ \E u \in UserNames : SaveUser(u)
    \/ \E u \in UserNames, r \in RoleChoices : SetRole(u, r)

SpecProfiles == InitProfiles /\ [][ProfilesNext]_vars

\* the role a dashboard is for
DashboardRole(view) ==
    CASE view = "admin_view" -> "Admin"
      [] view = "librarian_view" -> "Librarian"
      [] view = "member_view" -> "Member"

RoleChecksPassed(rows, u) ==
    {c \in {"is_admin", "is_librarian", "is_member"} :
        \/ c = "is_admin" /\ is_admin(rows, u)
        \/ c = "is_librarian" /\ is_librarian(rows, u)
        \/ c = "is_member" /\ is_member(rows, u)}

\* C11: a role dashboard answers 200 exactly when the requester is logged in,
\* has a UserProfile and the profile's role is the dashboard's role; every other
\* requester, anonymous included, gets the 302 redirect; and whatever role
\* changes were made, a user whose role is Admin, Librarian or Member passes
\* exactly one of is_admin, is_librarian, is_member
C11_DashboardOnlyForItsRole ==
    /\ [][LET r == roleLast'
          IN r.op \in {"admin_view", "librarian_view", "member_view"} =>
               r.status = IF /\ r.user # Anonymous
                             /\ r.user \in libUsers'
                             /\ HasProfile(profileRows', r.user)
                             /\ RoleOf(profileRows', r.user) = DashboardRole(r.op)
                          THEN 200 ELSE 302]_vars
    /\ [](\A u \in libUsers :
            (HasProfile(profileRows, u) /\ RoleOf(profileRows, u) \in RoleChoices)
                => Cardinality(RoleChecksPassed(profileRows, u)) = 1)

\* a librarian is shown the librarian dashboard while an account without
\* profile and a member exist
C11_Witness ==
    /\ roleLast.op = "librarian_view" /\ roleLast.status = 200
    /\ HasProfile(profileRows, roleLast.user)
    /\ RoleOf(profileRows, roleLast.user) = "Librarian"
    /\ \E u \in libUsers : ~HasProfile(profileRows, u)
    /\ \E u \in libUsers : HasProfile(profileRows, u) /\ RoleOf(profileRows, u) = "Member"

BlogUsers == {"alice", "bob"}
BlogRequesters == BlogUsers \cup {Anonymous}
BlogMethods == {"GET", "POST"}

\* a text of n letters
Letters(n) == [i \in 1..n |-> "x"]

\* str.split(',')
RECURSIVE SplitComma(_)
SplitComma(s) ==
    IF \A i \in 1..Len(s) : s[i] # "," THEN <<s>>
    ELSE LET i == CHOOSE k \in 1..Len(s) : s[k] = "," /\ \A j \in 1..(k - 1) : s[j] # ","
         IN <<SubSeq(s, 1, i - 1)>> \o SplitComma(SubSeq(s, i + 1, Len(s)))

\* PostForm.clean_title after CharField(max_length=200) has stripped the value
clean_title(title) ==
    LET t == Strip(title)
    IN [ok |-> t # <<>> /\ Len(t) <= 200 /\ Len(t) >= 5, value |-> t]

\* PostForm.clean_content after the field has stripped the value
PostForm_clean_content(content) ==
    LET c == Strip(content)
    IN [ok |-> c # <<>> /\ Len(c) >= 20, value |-> c]

\* the loop of clean_tags_input: the names in the order of their first
\* occurrence, without those longer than 50
RECURSIVE UniqueTags(_, _)
UniqueTags(tags, unique_tags) ==
    IF tags = <<>> THEN unique_tags
    ELSE LET tag == Head(tags)
         IN UniqueTags(Tail(tags),
                       IF (\A i \in 1..Len(unique_tags) : unique_tags[i] # tag) /\ Len(tag) <= 50
                       THEN Append(unique_tags, tag)
                       ELSE unique_tags)

\* names that keep the case they were typed in
clean_tags_input_cased(tags_input) ==
    LET t == Strip(tags_input)
        parts == SplitComma(t)
        tags == SelectSeq([i \in 1..Len(parts) |-> Strip(parts[i])], LAMBDA x : x # <<>>)
    IN IF t = <<>> THEN <<>> ELSE UniqueTags(tags, <<>>)

\* PostForm.clean_tags_input after CharField has stripped the value: the
\* list unique_tags
clean_tags_input(tags_input) ==
    LET t == Strip(tags_input)
        parts == SplitComma(t)
        tags == SelectSeq([i \in 1..Len(parts) |-> Lower(Strip(parts[i]))],
                          LAMBDA x : x # <<>>)
    IN IF t = <<>> THEN <<>> ELSE UniqueTags(tags, <<>>)

\* the Tag rows called name, and the name of the Tag row id
TagsNamed(tags, name) == {t \in tags : t.name = name}
TagName(id) == (CHOOSE t \in blogTags : t.id = id).name

\* Tag.objects.get_or_create(name=tag_name), id being the next primary key
TagGetOrCreate(tags, name, id) ==
    IF TagsNamed(tags, name) # {}
    THEN [tag |-> (CHOOSE t \in TagsNamed(tags, name) : TRUE).id, created |-> FALSE,
          tags |-> tags]
    ELSE [tag |-> id, created |-> TRUE, tags |-> tags \cup {[id |-> id, name |-> name]}]

\* the loop of PostForm.save over tags_list: get_or_create and post.tags.add
RECURSIVE AddTags(_, _, _, _)
AddTags(tags, next, tags_list, attached) ==
    IF tags_list = <<>> THEN [tags |-> tags, next |-> next, attached |-> attached]
    ELSE IF Head(tags_list) = <<>> THEN AddTags(tags, next, Tail(tags_list), attached)
    ELSE LET got == TagGetOrCreate(tags, Head(tags_list), next)
         IN AddTags(got.tags, IF got.created THEN next + 1 ELSE next, Tail(tags_list),
                    attached \cup {got.tag})

\* PostForm.save after super().save(): post.tags.clear(), then the loop
PostForm_save_tags(tags, next, tags_list) == AddTags(tags, next, tags_list, {})

\* PostForm.errors: the fields that failed
PostFormErrors(data) ==
    {f \in {"title", "content", "tags_input"} :
        \/ f = "title" /\ ~clean_title(data.title).ok
        \/ f = "content" /\ ~PostForm_clean_content(data.content).ok
        \/ f = "tags_input" /\ Len(Strip(data.tags_input)) > 500}

\* PostForm.save with form.instance.author set by form_valid
PostSaved(pk, author, data, attached) ==
    [id |-> pk, author |-> author, title |-> clean_title(data.title).value,
     content |-> PostForm_clean_content(data.content).value,
     tags |-> attached]

\* CommentForm.clean_content after the field has stripped the value
CommentForm_clean_content(content) ==
    LET c == Strip(content)
    IN [ok |-> c # <<>> /\ ~(Len(c) < 5) /\ ~(Len(c) > 1000), value |-> c]

\* CommentForm.errors
CommentFormErrors(content) ==
    IF CommentForm_clean_content(content).ok THEN {} ELSE {"content"}

BlogResponse(op, u, method, pk, status, content, errors) ==
    [op |-> op, user |-> u, method |-> method, pk |-> pk, status |-> status,
     content |-> content, errors |-> errors, search_in |-> {}, rows |-> {}]

PostByPk(pk) == {p \in blogPosts : p.id = pk}
CommentByPk(pk) == {c \in blogComments : c.id = pk}

\* a test that lets every logged-in user through
Post_test_func_any_user(u, pk) == TRUE

\* PostUpdateView.test_func, PostDeleteView.test_func
Post_test_func(u, pk) == \E p \in PostByPk(pk) : u = p.author

\* a test that also lets the author of the commented post through
Comment_test_func_post_author(u, pk) ==
    \E c \in CommentByPk(pk) : u = c.author \/ \E p \in PostByPk(c.post) : u = p.author

\* CommentUpdateView.test_func, CommentDeleteView.test_func
Comment_test_func(u, pk) == \E c \in CommentByPk(pk) : u = c.author

\* LoginRequiredMixin, then UserPassesTestMixin with get_object inside test_func:
\* 0 stands for "the view itself runs"
AuthorOnly(u, found, passes) ==
    IF u = Anonymous THEN 302
    ELSE IF ~found THEN 404
    ELSE IF ~passes THEN 403
    ELSE 0

\* a form view once its mixins let the request through
FormStatus(method, errors) ==
    IF method = "POST" /\ errors = {} THEN 302 ELSE 200

PostCreateView(u, method, data) ==
    LET errors == IF u # Anonymous /\ method = "POST" THEN PostFormErrors(data) ELSE {}
        creates == u # Anonymous /\ method = "POST" /\ errors = {}
        saved == PostForm_save_tags(blogTags, nextTagId, clean_tags_input(data.tags_input))
    IN /\ creates => nextPostId <= MaxBlogPosts
       /\ blogPosts' = IF creates
                       THEN blogPosts \cup {PostSaved(nextPostId, u, data, saved.attached)}
                       ELSE blogPosts
       /\ nextPostId' = IF creates THEN nextPostId + 1 ELSE nextPostId
       /\ blogTags' = IF creates THEN saved.tags ELSE blogTags
       /\ nextTagId' = IF creates THEN saved.next ELSE nextTagId
       /\ blogResp' = [tags_input |-> data.tags_input]
                      @@ BlogResponse("post_create", u, method, 0,
                                      IF u = Anonymous THEN 302 ELSE FormStatus(method, errors),
                                      <<>>, errors)
       /\ UNCHANGED <<blogComments, nextCommentId>>
       /\ UNCHANGED notBlogTags

PostUpdateView(u, method, pk, data) ==
    LET gate == AuthorOnly(u, PostByPk(pk) # {}, Post_test_func(u, pk))
        errors == IF gate = 0 /\ method = "POST" THEN PostFormErrors(data) ELSE {}
        saves == gate = 0 /\ method = "POST" /\ errors = {}
        saved == PostForm_save_tags(blogTags, nextTagId, clean_tags_input(data.tags_input))
    IN /\ blogPosts' = IF saves
                       THEN (blogPosts \ PostByPk(pk))
                            \cup {PostSaved(pk, u, data, saved.attached)}
                       ELSE blogPosts
       /\ blogTags' = IF saves THEN saved.tags ELSE blogTags
       /\ nextTagId' = IF saves THEN saved.next ELSE nextTagId
       /\ blogResp' = [tags_input |-> data.tags_input]
                      @@ BlogResponse("post_update", u, method, pk,
                                      IF gate # 0 THEN gate ELSE FormStatus(method, errors),
                                      <<>>, errors)
       /\ UNCHANGED <<blogComments, nextPostId, nextCommentId>>
       /\ UNCHANGED notBlogTags

\* the comments go with their post (on_delete=CASCADE)
PostDeleteView(u, method, pk) ==
    LET gate == AuthorOnly(u, PostByPk(pk) # {}, Post_test_func(u, pk))
        deletes == gate = 0 /\ method = "POST"
    IN /\ blogPosts' = IF deletes THEN blogPosts \ PostByPk(pk) ELSE blogPosts
       /\ blogComments' = IF deletes THEN {c \in blogComments : c.post # pk} ELSE blogComments
       /\ blogResp' = BlogResponse("post_delete", u, method, pk,
                                   IF gate # 0 THEN gate ELSE FormStatus(method, {}),
                                   <<>>, {})
       /\ UNCHANGED <<nextPostId, nextCommentId>>
       /\ UNCHANGED notBlog

CommentSaved(pk, post, author, content) ==
    [id |-> pk, post |-> post, author |-> author,
     content |-> CommentForm_clean_content(content).value]

\* CommentCreateView: the post of the URL is looked up when the form is valid
\* (form_valid) and when the page is rendered (get_context_data)
CommentCreateView(u, method, pk, content) ==
    LET errors == IF u # Anonymous /\ method = "POST" THEN CommentFormErrors(content) ELSE {}
        found == PostByPk(pk) # {}
        creates == u # Anonymous /\ method = "POST" /\ errors = {} /\ found
    IN /\ creates => nextCommentId <= MaxBlogComments
       /\ blogComments' = IF creates
                          THEN blogComments \cup {CommentSaved(nextCommentId, pk, u, content)}
                          ELSE blogComments
       /\ nextCommentId' = IF creates THEN nextCommentId + 1 ELSE nextCommentId
       /\ blogResp' = BlogResponse("comment_create", u, method, pk,
                                   IF u = Anonymous THEN 302
                                   ELSE IF ~found THEN 404
                                   ELSE FormStatus(method, errors),
                                   content, errors)
       /\ UNCHANGED <<blogPosts, nextPostId>>
       /\ UNCHANGED notBlog

\* add_comment: the post of the URL is looked up first
add_comment(u, method, post_id, content) ==
    LET found == PostByPk(post_id) # {}
        errors == IF u # Anonymous /\ found /\ method = "POST"
                  THEN CommentFormErrors(content) ELSE {}
        creates == u # Anonymous /\ found /\ method = "POST" /\ errors = {}
    IN /\ creates => nextCommentId <= MaxBlogComments
       /\ blogComments' = IF creates
                          THEN blogComments \cup {CommentSaved(nextCommentId, post_id, u, content)}
                          ELSE blogComments
       /\ nextCommentId' = IF creates THEN nextCommentId + 1 ELSE nextCommentId
       /\ blogResp' = BlogResponse("add_comment", u, method, post_id,
                                   IF u = Anonymous THEN 302
                                   ELSE IF ~found THEN 404
                                   ELSE FormStatus(method, errors),
                                   content, errors)
       /\ UNCHANGED <<blogPosts, nextPostId>>
       /\ UNCHANGED notBlog

CommentUpdateView(u, method, pk, content) ==
    LET gate == AuthorOnly(u, CommentByPk(pk) # {}, Comment_test_func(u, pk))
        errors == IF gate = 0 /\ method = "POST" THEN CommentFormErrors(content) ELSE {}
        saves == gate = 0 /\ method = "POST" /\ errors = {}
    IN /\ blogComments' =
            IF saves
            THEN (blogComments \ CommentByPk(pk)) \cup
                     {CommentSaved(pk, c.post, c.author, content) : c \in CommentByPk(pk)}
            ELSE blogComments
       /\ blogResp' = BlogResponse("comment_update", u, method, pk,
                                   IF gate # 0 THEN gate ELSE FormStatus(method, errors),
                                   content, errors)
       /\ UNCHANGED <<blogPosts, nextPostId, nextCommentId>>
       /\ UNCHANGED notBlog

CommentDeleteView(u, method, pk) ==
    LET gate == AuthorOnly(u, CommentByPk(pk) # {}, Comment_test_func(u, pk))
        deletes == gate = 0 /\ method = "POST"
    IN /\ blogComments' = IF deletes THEN blogComments \ CommentByPk(pk) ELSE blogComments
       /\ blogResp' = BlogResponse("comment_delete", u, method, pk,
                                   IF gate # 0 THEN gate ELSE FormStatus(method, {}),
                                   <<>>, {})
       /\ UNCHANGED <<blogPosts, nextPostId, nextCommentId>>
       /\ UNCHANGED notBlog

\* what the clients of the post views submit
BlogPostData ==
    {[title |-> <<"b", "o", "a", "t", "s">>, content |-> Letters(20), tags_input |-> <<>>],
     [title |-> <<" ">> \o Letters(5), content |-> <<"c", "o", "a", "t">> \o Letters(20),
      tags_input |-> <<"O", "a", "k", ",", " ", "b">>],
     [title |-> <<"a", "b">>, content |-> Letters(20), tags_input |-> <<>>]}

BlogPks == 1..(MaxBlogPosts + 1)

BlogPostsNext ==
    \/ \E u \in BlogRequesters, m \in BlogMethods, d \in BlogPostData : PostCreateView(u, m, d)
    \/ \E u \in BlogRequesters, m \in BlogMethods, pk \in BlogPks, d \in BlogPostData :
           PostUpdateView(u, m, pk, d)
    \/ \E u \in BlogRequesters, m \in BlogMethods, pk \in BlogPks : PostDeleteView(u, m, pk)

SpecBlogPosts == InitBlog /\ [][BlogPostsNext]_vars

IsPostWrite(r) == r.op \in {"post_update", "post_delete"}

\* C13: a post is updated or deleted only by its author: the same request of
\* another logged-in user is answered 403 and of an anonymous client 302 (login),
\* both leaving the posts as they were; and a stored post keeps its author
C13_OnlyAuthorWritesPost ==
    [][LET r == blogResp'
       IN /\ IsPostWrite(r) =>
                /\ (blogPosts' # blogPosts) =>
                        \E p \in blogPosts : p.id = r.pk /\ p.author = r.user
                /\ (r.user # Anonymous /\ \E p \in blogPosts : p.id = r.pk /\ p.author # r.user)
                        => (r.status = 403 /\ blogPosts' = blogPosts)
                /\ r.user = Anonymous => (r.status = 302 /\ blogPosts' = blogPosts)
          /\ \A p \in blogPosts, q \in blogPosts' : p.id = q.id => p.author = q.author]_vars

\* another logged-in user has posted a valid update form to a stored post
C13_Witness ==
    /\ blogResp.op = "post_update" /\ blogResp.method = "POST" /\ blogResp.status = 403
    /\ \E p \in blogPosts : p.id = blogResp.pk /\ p.author # blogResp.user
    /\ blogResp.user \in BlogUsers

\* what the clients of the comment views submit
CommentContents ==
    {Letters(4), <<" ">> \o Letters(5) \o <<" ">>, Letters(1000), Letters(1001)}

CommentEdits == {<<" ">>, <<" ">> \o Letters(5) \o <<" ">>}

\* who submits what to CommentCreateView
CommentCreateInputs == ({"bob"} \X CommentContents) \cup ({Anonymous} \X CommentEdits)

CommentPks == 1..(MaxBlogComments + 1)

\* alice has written the posts; bob comments, everybody tries to edit and delete
BlogCommentsNext ==
    \/ \E i \in CommentCreateInputs, pk \in 1..nextPostId :
           CommentCreateView(i[1], "POST", pk, i[2])
    \/ \E pk \in 1..nextPostId, c \in CommentEdits : add_comment("bob", "POST", pk, c)
    \/ \E u \in BlogRequesters, pk \in CommentPks, c \in CommentEdits :
           CommentUpdateView(u, "POST", pk, c)
    \/ \E u \in BlogRequesters, pk \in CommentPks : CommentDeleteView(u, "POST", pk)

SpecBlogComments == InitBlogComments /\ [][BlogCommentsNext]_vars

\* C14: a comment is edited or deleted only by its author: the same request of
\* another logged-in user, the author of the post included, is answered 403 and
\* leaves the comments as they were; a comment made through add_comment or
\* CommentCreateView belongs to the post of the URL and to the requesting user
C14_OnlyAuthorWritesComment ==
    [][LET r == blogResp'
       IN /\ r.op \in {"comment_update", "comment_delete"} =>
                /\ (blogComments' # blogComments) =>
                        \E c \in blogComments : c.id = r.pk /\ c.author = r.user
                /\ (r.user # Anonymous
                        /\ \E c \in blogComments : c.id = r.pk /\ c.author # r.user)
                        => (r.status = 403 /\ blogComments' = blogComments)
          /\ r.op \in {"add_comment", "comment_create"} =>
                \A c \in blogComments' \ blogComments :
                    /\ c.post = r.pk /\ c.author = r.user
                    /\ \E p \in blogPosts' : p.id = r.pk]_vars

\* the author of a post has posted a valid edit of somebody else's comment on it
C14_Witness ==
    /\ blogResp.op = "comment_update" /\ blogResp.method = "POST" /\ blogResp.status = 403
    /\ CommentFormErrors(blogResp.content) = {}
    /\ \E c \in blogComments :
          /\ c.id = blogResp.pk /\ c.author # blogResp.user
          /\ \E p \in blogPosts : p.id = c.post /\ p.author = blogResp.user

\* the comment form has looked at a submission
CommentFormRan(r) ==
    /\ r.op \in {"add_comment", "comment_create", "comment_update"}
    /\ r.method = "POST" /\ r.user # Anonymous /\ r.status \in {200, 302}

\* C15: CommentForm accepts a submission exactly when its content, stripped of
\* surrounding whitespace, is at least 5 and fewer than 1000 characters long;
\* anything else is rejected with an error on the content field
C15_CommentLengthWindow ==
    CommentFormRan(blogResp) =>
        LET n == Len(Strip(blogResp.content))
        IN IF n >= 5 /\ n < 1000 THEN blogResp.errors = {} /\ blogResp.status = 302
           ELSE blogResp.errors = {"content"} /\ blogResp.status = 200

\* SearchForm.search_in choices
SearchChoices == {"title", "content", "tags"}

\* SearchForm.clean_query after CharField(max_length=255) has stripped the value
clean_query(query) ==
    LET q == Strip(query)
    IN [ok |-> q # <<>> /\ Len(q) <= 255 /\ Len(q) >= 2, value |-> q]

\* SearchForm.errors; search_in is the set of boxes ticked, none when the
\* parameter is missing
SearchFormErrors(query, search_in) ==
    {f \in {"query", "search_in"} :
        \/ f = "query" /\ ~clean_query(query).ok
        \/ f = "search_in" /\ ~(search_in \subseteq SearchChoices)}

\* form.cleaned_data.get('search_in', ['title', 'content', 'tags']): the
\* MultipleChoiceField always puts its key into cleaned_data, an empty list
\* when nothing was ticked, so the default of get() is never taken
cleaned_search_in(search_in) == search_in

\* Q(title__icontains=query) | Q(content__icontains=query) | Q(tags__name__icontains=query),
\* restricted to the fields in search_in
q_objects(post, query, search_in) ==
    \/ "title" \in search_in /\ Contains(Lower(post.title), Lower(query))
    \/ "content" \in search_in /\ Contains(Lower(post.content), Lower(query))
    \/ "tags" \in search_in /\ \E t \in post.tags : Contains(Lower(TagName(t)), Lower(query))

\* Post.objects.filter(q_objects).distinct(): a Q() without conditions filters nothing
FilterPosts(query, search_in) ==
    IF search_in \cap SearchChoices = {} THEN {p.id : p \in blogPosts}
    ELSE {p.id : p \in {x \in blogPosts : q_objects(x, query, search_in)}}

SearchResponse(op, method, query, search_in, errors, rows) ==
    [op |-> op, user |-> Anonymous, method |-> method, pk |-> 0, status |-> 200,
     content |-> query, errors |-> errors, search_in |-> search_in, rows |-> rows]

\* SearchResultsView.get_queryset
SearchResultsView(query, search_in) ==
    LET errors == SearchFormErrors(query, search_in)
        rows == IF errors = {} /\ clean_query(query).value # <<>>
                THEN FilterPosts(clean_query(query).value, cleaned_search_in(search_in))
                ELSE {}
    IN /\ blogResp' = SearchResponse("search_results", "GET", query, search_in, errors, rows)
       /\ UNCHANGED <<blogPosts, blogComments, nextPostId, nextCommentId>>
       /\ UNCHANGED notBlog

\* search_posts: the form is bound to request.GET, results only for GET
search_posts(method, query, search_in) ==
    LET errors == SearchFormErrors(query, search_in)
        rows == IF method = "GET" /\ errors = {} /\ clean_query(query).value # <<>>
                THEN FilterPosts(clean_query(query).value, cleaned_search_in(search_in))
                ELSE {}
    IN /\ blogResp' = SearchResponse("search_posts", method, query, search_in, errors, rows)
       /\ UNCHANGED <<blogPosts, blogComments, nextPostId, nextCommentId>>
       /\ UNCHANGED notBlog

\* the posts the search is tried on: "oa" in the title, in the content, in a
\* tag, nowhere
SearchPostData ==
    {[title |-> <<"b", "o", "a", "t", "s">>, content |-> Letters(20), tags_input |-> <<>>],
     [title |-> Letters(5), content |-> <<"c", "O", "A", "t">> \o Letters(20),
      tags_input |-> <<>>],
     [title |-> Letters(5), content |-> Letters(20),
      tags_input |-> <<"O", "a", "k", ",", " ", "b">>],
     [title |-> Letters(5), content |-> Letters(20), tags_input |-> <<"b">>]}

SearchQueries == {<<"o", "a">>, <<" ", "O", "a", " ">>, <<"o">>}

SearchIns == {{}, {"title"}, {"content", "tags"}, SearchChoices, {"author"}}

BlogSearchNext ==
    \/ \E u \in {"alice"}, d \in SearchPostData : PostCreateView(u, "POST", d)
    \/ \E q \in SearchQueries, f \in SearchIns : SearchResultsView(q, f)
    \/ \E m \in BlogMethods, q \in SearchQueries, f \in SearchIns : search_posts(m, q, f)

SpecBlogSearch == InitBlog /\ [][BlogSearchNext]_vars

\* the fields a search covers: the ones ticked, all three when none is
FieldsCovered(search_in) == IF search_in = {} THEN SearchChoices ELSE search_in

\* C16: a search with a valid query lists exactly the posts that match the
\* query in at least one of the selected fields, and a search submitted without
\* search_in covers title, content and tags
C16_SearchCoversSelectedFields ==
    (/\ blogResp.op \in {"search_results", "search_posts"}
     /\ blogResp.method = "GET"
     /\ blogResp.errors = {})
        => blogResp.rows =
             {p.id : p \in {x \in blogPosts :
                 q_objects(x, Strip(blogResp.content), FieldsCovered(blogResp.search_in))}}

(***************************************************************************)
(* bookshelf/middleware.py: SecurityHeadersMiddleware                      *)
(***************************************************************************)

\* response[name] = value for every name of new
SetHeaders(headers, new) == new @@ headers

\* csp_directives
CspDirectives(settings) ==
    <<"default-src 'self'", "script-src 'self'", "style-src 'self' 'unsafe-inline'",
      "img-src 'self' data:", "font-src 'self'", "connect-src 'self'", "frame-src 'none'",
      "object-src 'none'", "base-uri 'self'", "form-action 'self'">>
    \o (IF settings.SECURE_SSL_REDIRECT THEN <<"upgrade-insecure-requests">> ELSE <<>>)

\* hsts_header, its parts in order
HstsHeader(settings) ==
    <<"max-age=31536000">>
    \o (IF settings.SECURE_HSTS_INCLUDE_SUBDOMAINS THEN <<"includeSubDomains">> ELSE <<>>)
    \o (IF settings.SECURE_HSTS_PRELOAD THEN <<"preload">> ELSE <<>>)

\* the HTTPS-specific headers
HttpsHeaders(settings) ==
    IF settings.SECURE_SSL_REDIRECT
    THEN ("Strict-Transport-Security" :> HstsHeader(settings))
         @@ ("Expect-CT" :> <<"max-age=86400, enforce">>)
    ELSE <<>>

\* the cache headers, by the URL a redirect response points to
CacheHeaders(url) ==
    ("Cache-Control" :> IF url \in {"/admin/", "/book/", "/accounts/"}
                        THEN <<"no-cache, no-store, must-revalidate, private">>
                        ELSE <<"no-cache, no-store, must-revalidate">>)
    @@ ("Pragma" :> <<"no-cache">>) @@ ("Expires" :> <<"0">>)

\* a middleware that adds the HTTPS headers whatever the settings say
add_security_headers_https_always(response, settings) ==
    [response EXCEPT !.headers =
        SetHeaders(@, ("Strict-Transport-Security" :> HstsHeader(settings))
                      @@ ("Content-Security-Policy" :> CspDirectives(settings))
                      @@ ("X-Content-Type-Options" :> <<"nosniff">>)
                      @@ ("X-Frame-Options" :> <<"DENY">>)
                      @@ ("X-XSS-Protection" :> <<"1; mode=block">>)
                      @@ ("Referrer-Policy" :> <<"strict-origin-when-cross-origin">>))]

\* SecurityHeadersMiddleware.add_security_headers
add_security_headers(response, settings) ==
    [response EXCEPT !.headers =
        SetHeaders(@, ("Content-Security-Policy" :> CspDirectives(settings))
                      @@ ("X-Content-Type-Options" :> <<"nosniff">>)
                      @@ ("X-Frame-Options" :> <<"DENY">>)
                      @@ ("X-XSS-Protection" :> <<"1; mode=block">>)
                      @@ ("Referrer-Policy" :> <<"strict-origin-when-cross-origin">>)
                      @@ ("Permissions-Policy" :>
                             <<"geolocation=()", "camera=()", "microphone=()", "payment=()",
                               "usb=()", "magnetometer=()", "accelerometer=()", "gyroscope=()">>)
                      @@ HttpsHeaders(settings)
                      @@ CacheHeaders(response.url))]

\* the responses get_response hands to the middleware: a page, a redirect, a
\* refusal, a missing page, with the headers the layers below may have set
InnerStatuses == {200, 302, 403, 404}
InnerUrls == {"", "/accounts/", "/book/", "/admin/"}
InnerHeaders ==
    {<<>>, ("X-Frame-Options" :> <<"SAMEORIGIN">>),
     ("Content-Type" :> <<"text/html">>) @@ ("X-XSS-Protection" :> <<"0">>)}

\* the paths requests come for: a book page, the admin, a static file
RequestPaths == {"/book/", "/admin/", "/static/"}

\* SecurityHeadersMiddleware.__call__ for a request of path; request_path
\* records the request with the response returned
SecurityHeadersMiddleware(path, status, url, headers) ==
    /\ (url # "") => status = 302
    /\ mwResponse' = [request_path |-> path]
                     @@ add_security_headers([status |-> status, url |-> url,
                                              headers |-> headers], mwSettings)
    /\ UNCHANGED mwSettings
    /\ UNCHANGED notMw

MwNext ==
    \E path \in RequestPaths, st \in InnerStatuses, url \in InnerUrls, h \in InnerHeaders :
        SecurityHeadersMiddleware(path, st, url, h)

SpecMw == InitMw /\ [][MwNext]_vars

HasHeader(response, name) == name \in DOMAIN response.headers

\* C17: whatever its status, a response that went through
\* SecurityHeadersMiddleware carries Content-Security-Policy,
\* X-Content-Type-Options: nosniff, X-Frame-Options: DENY, X-XSS-Protection and
\* Referrer-Policy, and it carries Strict-Transport-Security and Expect-CT
\* exactly when SECURE_SSL_REDIRECT is on
C17_SecurityHeadersOnEveryResponse ==
    mwResponse.status # 0 =>
        /\ \A n \in {"Content-Security-Policy", "X-Content-Type-Options", "X-Frame-Options",
                     "X-XSS-Protection", "Referrer-Policy"} : HasHeader(mwResponse, n)
        /\ mwResponse.headers["X-Content-Type-Options"] = <<"nosniff">>
        /\ mwResponse.headers["X-Frame-Options"] = <<"DENY">>
        /\ HasHeader(mwResponse, "Strict-Transport-Security") <=> mwSettings.SECURE_SSL_REDIRECT
        /\ HasHeader(mwResponse, "Expect-CT") <=> mwSettings.SECURE_SSL_REDIRECT

\* a 403 response served by a configuration without SSL redirect
C17_Witness ==
    /\ mwResponse.status = 403
    /\ ~mwSettings.SECURE_SSL_REDIRECT
    /\ HasHeader(mwResponse, "Content-Security-Policy")
    /\ mwResponse.headers["X-Frame-Options"] = <<"DENY">>
    /\ ~HasHeader(mwResponse, "Content-Type")

\* C26: a response for a sensitive path (/admin/, /book/, /accounts/) carries
\* Cache-Control 'no-cache, no-store, must-revalidate, private', every other
\* response a Cache-Control that allows caching and requires revalidation,
\* 'public, max-age=3600, must-revalidate'
C26_CacheControlByPath ==
    mwResponse.status # 0 =>
        mwResponse.headers["Cache-Control"] =
            IF mwResponse.request_path \in {"/admin/", "/book/", "/accounts/"}
               \/ mwResponse.url \in {"/admin/", "/book/", "/accounts/"}
            THEN <<"no-cache, no-store, must-revalidate, private">>
            ELSE <<"public, max-age=3600, must-revalidate">>

(***************************************************************************)
(* bookshelf: what BookForm lets through                                   *)
(***************************************************************************)

\* a title or author the form must refuse
UnsafeName(text) ==
    \/ Contains(text, <<"<">>) \/ Contains(text, <<">">>)
    \/ \E i \in 1..Len(text) : \E j \in i..Len(text) : Lower(SubSeq(text, i, j)) = Script
    \/ Len(Strip(text)) < 2

UnsafeForm(data) ==
    \/ UnsafeName(data.title) \/ UnsafeName(data.author)
    \/ data.publication_year < 1000 \/ data.publication_year > currentYear

\* the submissions tried on BookForm: two good ones, then one fault each
BookFormSubmissions ==
    {[title |-> <<" ", "O", "k">>, author |-> <<"A", "l">>, publication_year |-> 1000],
     [title |-> <<"T", "w", "o">>, author |-> <<"A", "l", " ">>, publication_year |-> 2026],
     [title |-> <<"<", "b">>, author |-> <<"A", "l">>, publication_year |-> 2000],
     [title |-> <<"a", "s", "C", "r", "i", "p", "T">>, author |-> <<"A", "l">>,
      publication_year |-> 2000],
     [title |-> <<" ", "a", " ">>, author |-> <<"A", "l">>, publication_year |-> 2000],
     [title |-> <<"O", "k">>, author |-> <<"a", ">">>, publication_year |-> 2000],
     [title |-> <<"O", "k">>, author |-> <<"A", "l">>, publication_year |-> 999],
     [title |-> <<"O", "k">>, author |-> <<"A", "l">>, publication_year |-> 2027]}

\* who submits them: an editor and an administrator of the test accounts
BookFormUsers == {"test_editor", "test_admin"}

BookFormNext ==
    \/ SetupGroupsCommand
    \/ SetupGroupsScript
    \/ CreateTestUsers
    \/ \E u \in BookFormUsers, data \in BookFormSubmissions : BookCreate(u, "POST", TRUE, data)
    \/ \E u \in BookFormUsers, pk \in 1..MaxShelfBooks, data \in BookFormSubmissions :
         BookEdit(u, "POST", TRUE, pk, data)
    \/ \E pk \in 1..MaxShelfBooks : BookDelete("test_admin", "POST", TRUE, pk)

SpecBookForm == InitShelf /\ [][BookFormNext]_vars

\* C18: a BookForm submission to book_create or book_edit whose title or author
\* contains '<', '>' or 'script' in any case, or is shorter than 2 characters
\* after stripping, or whose year is before 1000 or after the current year, is
\* rejected and no Book is created or changed; every stored Book has a stripped
\* title and author without those and a year between 1000 and the current year
C18_BookFormRejectsUnsafe ==
    /\ [][\A data \in BookFormSubmissions : UnsafeForm(data) =>
            \A u \in BookFormUsers :
                (\/ BookCreate(u, "POST", TRUE, data)
                 \/ \E pk \in 1..MaxShelfBooks : BookEdit(u, "POST", TRUE, pk, data))
                    => (shelfBooks' = shelfBooks /\ shelfResp'.status # 302)]_vars
    /\ [](\A b \in shelfBooks :
            /\ Strip(b.title) = b.title /\ ~UnsafeName(b.title)
            /\ Strip(b.author) = b.author /\ ~UnsafeName(b.author)
            /\ b.publication_year >= 1000 /\ b.publication_year <= currentYear)

\* an edit form posted by a user who may edit was sent back with errors
C18_Witness ==
    /\ shelfResp.view = "book_edit" /\ shelfResp.method = "POST" /\ shelfResp.status = 200
    /\ "can_edit" \in shelfResp.held
    /\ shelfBooks # {}

(***************************************************************************)
(* social_media_api: the create_sample_data command                        *)
(***************************************************************************)

\* user1, user2, user3 of the command, in the order it creates them
SampleUsers == <<"alice", "bob", "carol">>

\* the usernames among the first count that are still free, in order
RECURSIVE SampleCreated(_, _)
SampleCreated(count, i) ==
    IF i > count THEN <<>>
    ELSE (IF SampleUsers[i] \in users THEN <<>> ELSE <<SampleUsers[i]>>)
         \o SampleCreated(count, i + 1)

\* Token.objects.get_or_create for each created user, keys handed out in order
RECURSIVE SampleTokens(_, _, _)
SampleTokens(rows, created, k) ==
    IF created = <<>> THEN rows
    ELSE SampleTokens(TokenGetOrCreate(rows, Head(created), k), Tail(created), k + 1)

\* Follow.objects.get_or_create(follower=users[i], following=users[i + 1])
SampleFollows(rows, created) ==
    rows \cup {[follower |-> created[i], following |-> created[i + 1]] :
                 i \in 1..(Len(created) - 1)}

\* python manage.py create_sample_data --count=count
CreateSampleData(count) ==
    LET created == SampleCreated(count, 1)
    IN /\ users' = users \cup {created[i] : i \in 1..Len(created)}
       /\ tokens' = SampleTokens(tokens, created, nextKey)
       /\ nextKey' = FreshAfter(tokens', nextKey)
       /\ followRows' = IF Len(created) >= 2 THEN SampleFollows(followRows, created)
                        ELSE followRows
       /\ sresp' = [op |-> "create_sample_data", user |-> "none", status |-> 0,
                    created |-> created]
       /\ UNCHANGED <<regToken, posts, now, followedVia>>
       /\ UNCHANGED notSocial

SampleNext ==
    \/ \E count \in 1..Len(SampleUsers) : CreateSampleData(count)
    \/ \E u \in FeedUsers, t \in FeedUsers : FollowUser(u, t)
    \/ \E u \in FeedUsers : CreatePost(u)
    \/ \E u \in FeedUsers : Feed(u, 1, 0)

SpecSample == InitAuth /\ [][SampleNext]_vars

\* C19: the Follow rows create_sample_data writes for user_i and user_{i+1} act
\* as if user_i had called the follow endpoint on user_{i+1}: user_{i+1} is among
\* those user_i follows (feed authors, following_count, 'Already following') and
\* user_i among the followers of user_{i+1}; and the row the endpoint stores has
\* the requester as follower and the target as following
C19_SampleRowActsAsFollow ==
    /\ sresp.op = "create_sample_data" =>
          \A i \in 1..(Len(sresp.created) - 1) :
              /\ sresp.created[i + 1] \in FeedAuthors(followRows, sresp.created[i])
              /\ sresp.created[i + 1] \in Following(followRows, sresp.created[i])
              /\ sresp.created[i] \in Followers(followRows, sresp.created[i + 1])
    /\ (sresp.op = "follow" /\ sresp.status = 200) =>
          [follower |-> sresp.user, following |-> sresp.target] \in followRows

(***************************************************************************)
(* social_media_api: what the follow and unfollow endpoints refuse         *)
(***************************************************************************)

\* C20: following or unfollowing oneself is answered 400, following a user
\* already followed 400, unfollowing a user not followed 400, a user id that
\* does not exist 404, each leaving the follow relation as it was; no row ever
\* relates a user to themselves; and unfollowing right after a successful
\* follow gives back the relation there was before the follow
C20_FollowRefusals ==
    /\ [][LET r == sresp'
              followed == r.target \in followedVia[r.user]
          IN r.op \in {"follow", "unfollow"} =>
               /\ r.status = IF r.target \notin users THEN 404
                             ELSE IF r.target = r.user THEN 400
                             ELSE IF r.op = "follow" /\ followed THEN 400
                             ELSE IF r.op = "unfollow" /\ ~followed THEN 400
                             ELSE 200
               /\ r.status # 200 => followRows' = followRows
               /\ (r.op = "follow" /\ r.status = 200) =>
                     /\ followRows' # followRows
                     /\ r.target \in Following(followRows', r.user)
                     /\ FollowingRemove(followRows', r.user, r.target) = followRows
               /\ (r.op = "unfollow" /\ r.status = 200) =>
                     /\ r.target \notin Following(followRows', r.user)
                     /\ FollowingAdd(followRows', r.user, r.target) = followRows]_vars
    /\ [](\A row \in followRows : row.follower # row.following)

\* a second follow of the same user was refused while other relations exist
C20_Witness ==
    /\ sresp.op = "follow" /\ sresp.status = 400 /\ sresp.target # sresp.user
    /\ sresp.target \in Following(followRows, sresp.user)
    /\ Cardinality(followRows) >= 2

(***************************************************************************)
(* social_media_api: the like and unlike endpoints                         *)
(***************************************************************************)

\* the Like rows of user u for the post pk
LikesOf(rows, u, pk) == {r \in rows : r.user = u /\ r.post = pk}

\* an insert for every request, whether or not the user likes the post already
LikeAlwaysCreate(rows, u, pk, id) ==
    [created |-> TRUE, rows |-> rows \cup {[id |-> id, user |-> u, post |-> pk]}]

\* Like.objects.get_or_create(user=, post=): the row found, or a new row
LikeGetOrCreate(rows, u, pk, id) ==
    IF LikesOf(rows, u, pk) # {}
    THEN [created |-> FALSE, rows |-> rows]
    ELSE [created |-> TRUE, rows |-> rows \cup {[id |-> id, user |-> u, post |-> pk]}]

\* Notification.objects.create(recipient=, actor=, verb=, target=)
NotificationCreate(rows, recipient, actor, verb, target) ==
    rows \cup {[id |-> Cardinality(rows) + 1, recipient |-> recipient, actor |-> actor,
                verb |-> verb, target |-> target]}

SocialPostByPk(pk) == {p \in posts : p.id = pk}

LikeResponse(op, u, pk, status) == [op |-> op, user |-> u, pk |-> pk, status |-> status]

\* permission_classes = [IsAuthenticated]: a request without credentials is
\* refused before the handler runs, 401 or 403 by the authentication scheme
NotAuthenticated(op, u, pk) ==
    /\ u \notin users
    /\ \E status \in {401, 403} : likeResp' = LikeResponse(op, u, pk, status)
    /\ UNCHANGED <<likeRows, nextLikeId, notifications>>
    /\ UNCHANGED notLikes

\* LikePostView.post, by user u for the post pk
LikePostView(u, pk) ==
    /\ u \in users
    /\ IF SocialPostByPk(pk) = {}
       THEN /\ likeResp' = LikeResponse("like", u, pk, 404)
            /\ UNCHANGED <<likeRows, nextLikeId, notifications>>
       ELSE LET post == CHOOSE p \in SocialPostByPk(pk) : TRUE
                got == LikeGetOrCreate(likeRows, u, pk, nextLikeId)
            IN IF ~got.created
               THEN /\ likeResp' = LikeResponse("like", u, pk, 400)
                    /\ UNCHANGED <<likeRows, nextLikeId, notifications>>
               ELSE /\ nextLikeId <= MaxLikes
                    /\ post.author # u => Cardinality(notifications) < MaxNotifications
                    /\ likeRows' = got.rows
                    /\ nextLikeId' = nextLikeId + 1
                    /\ notifications' =
                         IF post.author # u
                         THEN NotificationCreate(notifications, post.author, u,
                                                 "liked your post", pk)
                         ELSE notifications
                    /\ likeResp' = LikeResponse("like", u, pk, 200)
    /\ UNCHANGED notLikes

\* UnlikePostView.post, by user u for the post pk
UnlikePostView(u, pk) ==
    /\ u \in users
    /\ IF SocialPostByPk(pk) = {}
       THEN /\ likeResp' = LikeResponse("unlike", u, pk, 404)
            /\ UNCHANGED likeRows
       ELSE IF Cardinality(LikesOf(likeRows, u, pk)) = 1
       THEN /\ likeRows' = likeRows \ LikesOf(likeRows, u, pk)
            /\ likeResp' = LikeResponse("unlike", u, pk, 200)
       ELSE IF LikesOf(likeRows, u, pk) = {}
       THEN /\ likeResp' = LikeResponse("unlike", u, pk, 400)
            /\ UNCHANGED likeRows
       ELSE \* Like.MultipleObjectsReturned is not caught
            /\ likeResp' = LikeResponse("unlike", u, pk, 500)
            /\ UNCHANGED likeRows
    /\ UNCHANGED <<nextLikeId, notifications>>
    /\ UNCHANGED notLikes

LikeUsers == {"alice", "bob"}
LikePks == 1..3

LikesNext ==
    \/ \E u \in LikeUsers, pk \in LikePks : LikePostView(u, pk)
    \/ \E u \in LikeUsers, pk \in LikePks : UnlikePostView(u, pk)
    \/ \E op \in {"like", "unlike"}, pk \in LikePks : NotAuthenticated(op, Anonymous, pk)

SpecLikes == InitLikes /\ [][LikesNext]_vars

\* C21: each (user, post) pair has at most one Like; a like request on a post
\* the user already likes is answered 400 and an unlike request on a post the
\* user does not like is answered 400, both leaving the Likes as they were;
\* and a like request by the user whose successful unlike of the same post
\* was the previous request is answered 200 and stores the Like again.
C21_LikeUniqueness ==
    /\ [](\A r1 \in likeRows, r2 \in likeRows :
             r1.user = r2.user /\ r1.post = r2.post => r1 = r2)
    /\ [][LET r == likeResp'
          IN /\ (r.op = "like" /\ LikesOf(likeRows, r.user, r.pk) # {})
                  => r.status = 400 /\ likeRows' = likeRows
             /\ (r.op = "unlike" /\ r.user \in users /\ SocialPostByPk(r.pk) # {}
                   /\ LikesOf(likeRows, r.user, r.pk) = {})
                  => r.status = 400 /\ likeRows' = likeRows
             /\ (r.op = "like" /\ likeResp.op = "unlike" /\ likeResp.status = 200
                   /\ likeResp.user = r.user /\ likeResp.pk = r.pk)
                  => r.status = 200 /\ LikesOf(likeRows', r.user, r.pk) # {}]_vars

\* alice has liked bob's post twice (two notifications tell it) with an unlike
\* in between, and bob was refused a second like of the same post
C21_Witness ==
    /\ likeResp = LikeResponse("like", "bob", 2, 400)
    /\ Cardinality(LikesOf(likeRows, "alice", 2)) = 1
    /\ Cardinality({n \in notifications : n.actor = "alice" /\ n.target = 2}) = 2

(***************************************************************************)
(* django_blog: the tags of a post                                         *)
(***************************************************************************)

\* ', '.join(names)
RECURSIVE JoinComma(_)
JoinComma(names) ==
    IF names = <<>> THEN <<>>
    ELSE IF Len(names) = 1 THEN names[1]
    ELSE names[1] \o <<",", " ">> \o JoinComma(Tail(names))

\* PostForm.__init__ for a stored post: the initial value of tags_input, the
\* names of instance.tags.all() (in the order of Tag.Meta.ordering) joined
PostForm_initial_tags(post) ==
    {JoinComma([i \in 1..Len(f) |-> f[i].name]) :
        f \in {g \in Perms({t \in blogTags : t.id \in post.tags}) :
                 \A i, j \in 1..Len(g) : i < j => ~StrLess(g[j].name, g[i].name)}}

\* the form an author gets for a stored post, submitted as it came
PostForm_initial(post) ==
    {[title |-> post.title, content |-> post.content, tags_input |-> t] :
        t \in PostForm_initial_tags(post)}

TestUser == "testuser"
TestTagNames == <<<<"D", "j", "a", "n", "g", "o">>, <<"P", "y", "t", "h", "o", "n">>,
                  <<"W", "e", "b", " ", "D", "e", "v", "e", "l", "o", "p", "m", "e", "n", "t">>>>
TestPosts ==
    <<[title |-> <<"D", "j", "a", "n", "g", "o", " ", "T", "u", "t", "o", "r", "i", "a", "l">>,
       content |-> <<"T", "h", "i", "s", " ", "i", "s", " ", "a", " ", "c", "o", "m", "p", "r", "e", "h", "e", "n", "s", "i", "v", "e", " ", "D", "j", "a", "n", "g", "o", " ", "t", "u", "t", "o", "r", "i", "a", "l", " ", "f", "o", "r", " ", "b", "e", "g", "i", "n", "n", "e", "r", "s", ".">>,
       tags |-> {1, 2}],
      [title |-> <<"P", "y", "t", "h", "o", "n", " ", "B", "e", "s", "t", " ", "P", "r", "a", "c", "t", "i", "c", "e", "s">>,
       content |-> <<"L", "e", "a", "r", "n", " ", "a", "b", "o", "u", "t", " ", "P", "y", "t", "h", "o", "n", " ", "c", "o", "d", "i", "n", "g", " ", "b", "e", "s", "t", " ", "p", "r", "a", "c", "t", "i", "c", "e", "s", " ", "a", "n", "d", " ", "c", "o", "n", "v", "e", "n", "t", "i", "o", "n", "s", ".">>,
       tags |-> {2}],
      [title |-> <<"B", "u", "i", "l", "d", "i", "n", "g", " ", "W", "e", "b", " ", "A", "p", "p", "l", "i", "c", "a", "t", "i", "o", "n", "s">>,
       content |-> <<"G", "u", "i", "d", "e", " ", "t", "o", " ", "b", "u", "i", "l", "d", "i", "n", "g", " ", "m", "o", "d", "e", "r", "n", " ", "w", "e", "b", " ", "a", "p", "p", "l", "i", "c", "a", "t", "i", "o", "n", "s", " ", "w", "i", "t", "h", " ", "D", "j", "a", "n", "g", "o", ".">>,
       tags |-> {1, 3}]>>

\* Post.objects.get_or_create(title=, defaults=) for the first n posts of the
\* test data, with post.tags.add(...) for a post that was created; tag_ids are
\* the Tag rows the names of the test data were got or created as
RECURSIVE CreateTestPosts(_, _, _, _)
CreateTestPosts(rows, next, n, tag_ids) ==
    IF n = 0 THEN [rows |-> rows, next |-> next]
    ELSE LET before == CreateTestPosts(rows, next, n - 1, tag_ids)
             d == TestPosts[n]
         IN IF \E p \in before.rows : p.title = d.title
            THEN before
            ELSE [rows |-> before.rows \cup
                              {[id |-> before.next, author |-> TestUser, title |-> d.title,
                                content |-> d.content,
                                tags |-> {tag_ids[i] : i \in d.tags}]},
                  next |-> before.next + 1]

\* Task4ValidationTest.setup_test_data: the three tags and the three posts
setup_test_data ==
    LET got == [i \in 1..Len(TestTagNames) |->
                   AddTags(blogTags, nextTagId, SubSeq(TestTagNames, 1, i), {})]
        tag_ids == [i \in 1..Len(TestTagNames) |->
                      (CHOOSE t \in got[i].tags : t.name = TestTagNames[i]).id]
        made == CreateTestPosts(blogPosts, nextPostId, Len(TestPosts), tag_ids)
    IN /\ blogTags' = got[Len(TestTagNames)].tags
       /\ nextTagId' = got[Len(TestTagNames)].next
       /\ blogPosts' = made.rows
       /\ nextPostId' = made.next
       /\ blogResp' = [tags_input |-> <<>>]
                      @@ BlogResponse("setup_test_data", TestUser, "none", 0, 0, <<>>, {})
       /\ UNCHANGED <<blogComments, nextCommentId>>
       /\ UNCHANGED notBlogTags

\* what the test user types into tags_input: nothing; a name twice in two
\* cases, an empty name, a name of 51 characters and one of 50; the name of a
\* tag of the test data
TagInputs ==
    {<<>>,
     <<"b", ",", ",", "B", " ", ",">> \o Letters(51) \o <<",">> \o Letters(50),
     <<"P", "y", "t", "h", "o", "n">>}

TagPostData == {[title |-> Letters(5), content |-> Letters(20), tags_input |-> t] : t \in TagInputs}

\* the posts whose form the test user submits: the first two
TagPks == {1, 2}

TagsNext ==
    \/ setup_test_data
    \/ \E d \in {x \in TagPostData : Len(x.tags_input) > 100} :
          PostCreateView(TestUser, "POST", d)
    \/ \E pk \in TagPks, d \in TagPostData : PostUpdateView(TestUser, "POST", pk, d)
    \/ \E pk \in TagPks : \E p \in PostByPk(pk) : \E d \in PostForm_initial(p) :
          PostUpdateView(TestUser, "POST", pk, d)

SpecTags == InitBlog /\ [][TagsNext]_vars

\* the names a text of tags stands for: the parts between its commas, trimmed
\* and lower-cased, without the empty ones and those longer than 50
TagNamesOf(tags_input) ==
    LET parts == SplitComma(tags_input)
    IN {n \in {Lower(Strip(parts[i])) : i \in 1..Len(parts)} : n # <<>> /\ Len(n) <= 50}

\* the post a PostForm request answered r has saved, in the rows after it
SavedPost(r, rows, next) ==
    CHOOSE p \in rows : p.id = IF r.op = "post_create" THEN next ELSE r.pk

PostFormSaved(r) ==
    /\ r.op \in {"post_create", "post_update"} /\ r.method = "POST"
    /\ r.user # Anonymous /\ r.status = 302

\* C25: after a post is created or updated through PostForm its tags are
\* exactly the Tag rows named by the distinct, trimmed, lower-cased, non-empty,
\* at most 50 characters long parts of tags_input (so tags not listed are
\* detached and an empty tags_input leaves no tag); the Tag rows stored before
\* are kept, a row is created only for a listed name that had none, and no
\* two Tag rows ever share a name
C25_TagsReplaced ==
    /\ [](\A t1 \in blogTags, t2 \in blogTags : t1.name = t2.name => t1 = t2)
    /\ [][LET r == blogResp'
          IN PostFormSaved(r) =>
               LET post == SavedPost(r, blogPosts', nextPostId)
                   names == TagNamesOf(r.tags_input)
               IN /\ {t.name : t \in {x \in blogTags' : x.id \in post.tags}} = names
                  /\ Cardinality(post.tags) = Cardinality(names)
                  /\ post.tags \subseteq {t.id : t \in blogTags'}
                  /\ blogTags \subseteq blogTags'
                  /\ \A t \in blogTags' \ blogTags :
                        t.name \in names /\ TagsNamed(blogTags, t.name) = {}]_vars

\* a post has been updated with the long input: it now has the tags b and the
\* 50 letters only, while the tag python, entered through the form before
\* them, is still stored
C25_Witness ==
    /\ PostFormSaved(blogResp) /\ blogResp.op = "post_update"
    /\ Len(blogResp.tags_input) > 100
    /\ \E p \in PostByPk(blogResp.pk) :
          {TagName(t) : t \in p.tags} = {<<"b">>, Letters(50)}
    /\ \E t \in TagsNamed(blogTags, <<"p", "y", "t", "h", "o", "n">>) :
          \A b \in TagsNamed(blogTags, <<"b">>) : t.id < b.id

\* C29: a stored post whose form is submitted with the tags_input it came
\* with keeps its tags, the same Tag rows, whatever tags it had, those
\* created outside the form included
C29_TagRoundTrip ==
    [][LET r == blogResp'
       IN (r.op = "post_update" /\ PostFormSaved(r)) =>
            \A p \in PostByPk(r.pk) :
                r.tags_input \in PostForm_initial_tags(p) =>
                    SavedPost(r, blogPosts', nextPostId).tags = p.tags]_vars

(***************************************************************************)
(* advanced-api-project: book_statistics                                   *)
(***************************************************************************)

\* a decade that starts at the nearest multiple of ten
decade_rounded(publication_year) == ((publication_year + 5) \div 10) * 10

\* (book.publication_year // 10) * 10
decade(publication_year) == (publication_year \div 10) * 10

\* f"{decade}s"
DecadeKey(publication_year) == <<decade(publication_year), "s">>

\* books_by_decade after the loop over Book.objects.all()
books_by_decade(books) ==
    [k \in {DecadeKey(b.publication_year) : b \in books} |->
        Cardinality({b \in books : DecadeKey(b.publication_year) = k})]

\* Author.objects.annotate(book_count=Count('books')).order_by('-book_count')[:5]:
\* the slices the database can return, authors of equal count in any order
prolific_authors(authors, books) ==
    LET book_count(a) == Cardinality({b \in books : b.author = a.id})
        n == IF Cardinality(authors) < 5 THEN Cardinality(authors) ELSE 5
    IN {f \in [1..n -> authors] :
          /\ \A i, j \in 1..n : i < j => f[i] # f[j] /\ book_count(f[i]) >= book_count(f[j])
          /\ \A a \in authors :
                (\A i \in 1..n : f[i] # a) => \A i \in 1..n : book_count(f[i]) >= book_count(a)}

\* book_statistics: GET /books/statistics/
book_statistics ==
    /\ \E top \in prolific_authors(apiAuthors, apiBooks) :
          apiResp' = [total_books |-> Cardinality(apiBooks),
                      total_authors |-> Cardinality(apiAuthors),
                      books_per_decade |-> books_by_decade(apiBooks),
                      most_prolific_authors |->
                          [i \in 1..Len(top) |->
                              [name |-> top[i].name,
                               book_count |-> Cardinality(BooksOf(top[i].id))]]]
                     @@ ApiResponse("book_statistics", FALSE, "GET", 0, 200)
    /\ UNCHANGED <<apiAuthors, apiBooks, nextAuthorPk, nextBookPk, today>>
    /\ UNCHANGED notApi

\* books of the first and the last author, around the turn of two decades
StatsBookData ==
    {[has |-> BookFields, title |-> <<"a">>, publication_year |-> y, author |-> a] :
        y \in {1989, 1990}, a \in {1, 6}}

StatsNext ==
    \/ \E data \in StatsBookData : BookCreateView(TRUE, data)
    \/ book_statistics

SpecStats == InitStats /\ [][StatsNext]_vars

\* the sum of the counts of the buckets in keys
RECURSIVE BucketSum(_, _)
BucketSum(buckets, keys) ==
    IF keys = {} THEN 0
    ELSE LET k == CHOOSE x \in keys : TRUE
         IN buckets[k] + BucketSum(buckets, keys \ {k})

\* C27: in a book_statistics response the bucket keyed by the decade
\* floor(publication_year / 10) * 10 of a stored book counts the stored books
\* of that decade, and there is no other bucket, so every stored book is counted
\* in exactly one bucket and the counts sum to total_books; total_books is the
\* number of stored books; most_prolific_authors has at most five entries, in
\* non-increasing order of book_count
C27_StatisticsBuckets ==
    apiResp.op = "book_statistics" =>
        LET floor10(y) == CHOOSE d \in -10..3000 : d % 10 = 0 /\ d <= y /\ y < d + 10
            buckets == apiResp.books_per_decade
            top == apiResp.most_prolific_authors
        IN /\ apiResp.total_books = Cardinality(apiBooks)
           /\ DOMAIN buckets = {<<floor10(b.publication_year), "s">> : b \in apiBooks}
           /\ \A k \in DOMAIN buckets :
                 buckets[k] = Cardinality({b \in apiBooks : floor10(b.publication_year) = k[1]})
           /\ BucketSum(buckets, DOMAIN buckets) = apiResp.total_books
           /\ Len(top) <= 5
           /\ \A i, j \in 1..Len(top) : i < j => top[i].book_count >= top[j].book_count

\* six authors stored, books of 1989 and of 1990 in two buckets, and the five
\* authors listed start with one who has a book and end with one who has none
C27_Witness ==
    /\ apiResp.op = "book_statistics"
    /\ Cardinality(apiAuthors) = 6
    /\ DOMAIN apiResp.books_per_decade = {<<1980, "s">>, <<1990, "s">>}
    /\ Len(apiResp.most_prolific_authors) = 5
    /\ apiResp.most_prolific_authors[1].book_count = 1
    /\ apiResp.most_prolific_authors[5].book_count = 0

(***************************************************************************)
(* social_media_api: follow requests served side by side                   *)
(***************************************************************************)

\* FollowUserView.post entered by worker w for user u and user_id t:
\* get_object_or_404 and the comparison with request.user
FollowEnter(w, u, t) ==
    /\ inflight[w].pc = "idle"
    /\ u \in users
    /\ inflight' = [inflight EXCEPT ![w] =
                       IF t \notin users
                       THEN [pc |-> "done", user |-> u, target |-> t, status |-> 404]
                       ELSE IF t = u
                       THEN [pc |-> "done", user |-> u, target |-> t, status |-> 400]
                       ELSE [pc |-> "check", user |-> u, target |-> t, status |-> 0]]
    /\ UNCHANGED followRows
    /\ UNCHANGED notFollowing

\* request.user.following.filter(id=to_follow.id).exists()
FollowCheck(w) ==
    LET q == inflight[w]
    IN /\ q.pc = "check"
       /\ inflight' = [inflight EXCEPT ![w] =
                          IF q.target \in Following(followRows, q.user)
                          THEN [q EXCEPT !.pc = "done", !.status = 400]
                          ELSE [q EXCEPT !.pc = "add"]]
       /\ UNCHANGED followRows
       /\ UNCHANGED notFollowing

\* request.user.following.add(to_follow), first half: the manager selects the
\* targets that have no Follow row yet; with none missing nothing is written
\* and the view answers 200
FollowAddSelect(w) ==
    LET q == inflight[w]
    IN /\ q.pc = "add"
       /\ inflight' = [inflight EXCEPT ![w] =
                          IF q.target \in Following(followRows, q.user)
                          THEN [q EXCEPT !.pc = "done", !.status = 200]
                          ELSE [q EXCEPT !.pc = "insert"]]
       /\ UNCHANGED followRows
       /\ UNCHANGED notFollowing

\* second half: the insert of the missing row; unique_together makes the
\* database refuse a second row of the pair, the IntegrityError is not caught
\* and the request ends as a server error
FollowAddInsert(w) ==
    LET q == inflight[w]
    IN /\ q.pc = "insert"
       /\ IF q.target \in Following(followRows, q.user)
          THEN /\ inflight' = [inflight EXCEPT ![w] = [q EXCEPT !.pc = "done", !.status = 500]]
               /\ UNCHANGED followRows
          ELSE /\ followRows' = FollowingAdd(followRows, q.user, q.target)
               /\ inflight' = [inflight EXCEPT ![w] = [q EXCEPT !.pc = "done", !.status = 200]]
       /\ UNCHANGED notFollowing

RaceUsers == {"alice", "bob"}
RaceTargets == {"alice", "bob", "dave"}

RaceNext ==
    \/ \E w \in Workers, u \in RaceUsers, t \in RaceTargets : FollowEnter(w, u, t)
    \/ \E w \in Workers : FollowCheck(w)
    \/ \E w \in Workers : FollowAddSelect(w)
    \/ \E w \in Workers : FollowAddInsert(w)

SpecRace == InitRace /\ [][RaceNext]_vars

\* C28: two follow requests of one user for one target that are served side
\* by side leave at most one Follow row of the pair, at most one of them is
\* answered 200 and, one being answered 200, the other is answered 400
C28_ConcurrentFollowOnce ==
    \A w1 \in Workers, w2 \in Workers :
        (/\ w1 # w2
         /\ inflight[w1].pc = "done" /\ inflight[w2].pc = "done"
         /\ inflight[w1].user = inflight[w2].user
         /\ inflight[w1].target = inflight[w2].target)
        => /\ Cardinality({r \in followRows : r.following = inflight[w1].user
                                                /\ r.follower = inflight[w1].target}) <= 1
           /\ ~(inflight[w1].status = 200 /\ inflight[w2].status = 200)
           /\ inflight[w1].status = 200 => inflight[w2].status = 400
====
